---- MODULE Spec2Model ----
(***************************************************************************)
(* Model of the type-indexed dependency registry of src/deps.go: scopes    *)
(* with a parent chain, a map of cached instances and a map of provider    *)
(* links per scope, the generic (Scope.Get) and typed (GetScoped)          *)
(* resolution paths, Hydrate, Invoke and the teardown operations.          *)
(***************************************************************************)
EXTENDS Integers, Sequences, FiniteSets, TLC

\* ---------------------------------------------------------------- bounds
\* Scopes that may exist (the global scope included).
MaxScopes == 3
\* Objects of a run, counted together: the scopes spawned, the provider links
\* registered and the instances allocated by Create callbacks and Set callers.
MaxObjects == 4
\* Parameters of an invoked function.
MaxParams == 2
\* Goroutines that call Get at the same time.
MaxCallers == 2

\* ------------------------------------------------------------ vocabulary
\* reflect.Type keys that constants and providers are registered under.
TypeKeys == {"Port", "Env"}

\* The three lifetimes of deps.go:167-177.
LifetimeForever == "Forever"
LifetimeScope == "Scope"
LifetimeOnce == "Once"
Lifetimes == {LifetimeForever, LifetimeScope, LifetimeOnce}

\* The sentinel errors of deps.go:10-14, NoErr for a nil error, and the
\* errors returned by the callbacks the application supplies.
NoErr == "nil"
ErrMissingCreate == "ErrMissingCreate"
ErrNoProvider == "ErrNoProvider"
ErrNotPointer == "ErrNotPointer"
ErrNotFunc == "ErrNotFunc"
ErrInvalidValue == "ErrInvalidValue"
ErrCreate == "create failed"
ErrAfterUse == "after use failed"
ErrFree == "free failed"
ErrProvideDynamic == "provide dynamic failed"
ErrDynamic == "dynamic failed"
\* The error the Free callback registered for `key` returns when it fails.
FreeErr(key) == ErrFree \o ": " \o key
\* A nil dereference or failed type assertion: the goroutine panics.
Panic == "panic"

\* global.parent is nil.
NoParent == -1
\* The global scope, deps.go:16.
global == 0

\* A missing map entry of scope.instances; instance ids start at 1.
NoInst == [id |-> 0, val |-> 0]
\* A missing map entry of scope.providers.
NoLink == [lifetime |-> "none", create |-> FALSE, after |-> FALSE, free |-> FALSE]

\* A type declared without the Dynamic capability and without fields.
Plain == [dynamic |-> FALSE, fields |-> <<>>]

\* The Scope.Dynamic field: nil, or a callback that, for every type it is
\* asked for, returns a value, returns nothing (nil, nil) or returns an error.
NoDynamic == "nil"
DynValue == "value"
DynNothing == "nothing"
DynError == "error"
DynamicProviders == {DynValue, DynNothing, DynError}

\* The id of a value that no scope.instances entry holds: the reflect.New of
\* GetDynamic, or what a Dynamic callback returns.
FreshId == -1

\* Values of the (integer-like) provided types: the zero value, the value a
\* Create callback or a Set caller supplies, and the value an invoked
\* function writes through a pointer parameter.
ZeroVal == 0
InitVal == 1
WrittenVal == 2
\* The value of a constant that a Set caller supplies, where it is told apart
\* from what Create supplies.
SetVal == 3

\* Provider[V] records an application registers: a lifetime and the
\* optional Create / AfterPointerUse / Free callbacks.
Providers ==
    [lifetime : Lifetimes, create : {TRUE}, after : {TRUE}, free : {TRUE}]
        \cup [lifetime : {LifetimeForever}, create : {TRUE}, after : {FALSE}, free : {FALSE}]

\* The parameter types of invoked functions and the targets of Hydrate: a
\* provided type V by value, or a pointer *V.
ByValue == "value"
ByPointer == "pointer"
ParamTypes == [kind : {ByValue, ByPointer}, key : TypeKeys]

\* The values passed to Invoke: a func with up to MaxParams parameters, which
\* may write through the pointers it is given, or something that is no func.
NotAFunc == [func |-> FALSE, params |-> <<>>, writes |-> FALSE]
KeysOf(params, kinds) ==
    {params[i].key : i \in {j \in DOMAIN params : params[j].kind \in kinds}}
Funcs ==
    {fn \in [func : {TRUE},
             params : UNION {[1..n -> ParamTypes] : n \in 0..MaxParams},
             writes : BOOLEAN] :
        fn.writes => KeysOf(fn.params, {ByPointer}) # {}}

\* The callbacks that fail in one operation: the Create callbacks of the keys
\* in `create`, the AfterPointerUse callbacks of those in `after`. At most one
\* callback kind of one key fails per operation, chosen among the callbacks
\* `creates` and `afters` that the operation can reach.
NoFailure == [create |-> {}, after |-> {}]
Failures(creates, afters) ==
    {NoFailure} \cup {[create |-> {k}, after |-> {}] : k \in creates}
                \cup {[create |-> {}, after |-> {k}] : k \in afters}

\* ----------------------------------------------------------------- state
VARIABLES
    types,       \* type key -> its declaration: Dynamic capability, fields
    parent,      \* scope -> its parent scope (NoParent for the global scope)
    dynamic,     \* scope -> its Dynamic callback
    providers,   \* scope -> type key -> provider link
    instances,   \* scope -> type key -> cached instance
    nextId,      \* the next instance to be allocated
    last,        \* the last operation: its arguments, result and callback events
    calls        \* goroutine -> the Get it is in, if the program runs several

vars == <<types, parent, dynamic, providers, instances, nextId, last, calls>>

Scopes == DOMAIN parent

\* The scopes from `scope` up to the global scope.
RECURSIVE Chain(_)
Chain(scope) ==
    IF parent[scope] = NoParent THEN {scope} ELSE {scope} \cup Chain(parent[scope])

\* The goroutines of a program that calls Get from several of them, and where
\* one stands in its call: before the cache reads of Scope.Get and link.get,
\* in Create, before the cache write of link.get, back with its result, or
\* ended by the runtime.
Callers == 1..MaxCallers
PcIdle == "idle"
PcRead == "read"
PcCreate == "create"
PcWrite == "write"
PcDone == "done"
PcFatal == "fatal"
Call(pc, scope, key, target, err, inst, events) ==
    [pc |-> pc, scope |-> scope, key |-> key, target |-> target, err |-> err,
     inst |-> inst, events |-> events]
NoCall == Call(PcIdle, global, "", global, NoErr, NoInst, <<>>)
NoCalls == [c \in Callers |-> NoCall]

\* One callback or call event of an operation.
Event(ev, key, scope, id) == [ev |-> ev, key |-> key, scope |-> scope, id |-> id]

\* The record kept of an operation: its name, the scope it ran on, its
\* argument (type keys or parameter types), the error and the instance it
\* returned, the arguments an invoked function received, the errors a teardown
\* collected, and the callbacks it ran, in order.
Op(op, scope, arg, err, inst, args, errs, events) ==
    [op |-> op, scope |-> scope, arg |-> arg, err |-> err, inst |-> inst,
     args |-> args, errs |-> errs, events |-> events]

\* No result is held: the application has taken the result of its last call.
\* Spawn and the assignment of a Dynamic callback leave nothing to hold.
Idle == Op("idle", global, <<>>, NoErr, NoInst, <<>>, <<>>, <<>>)

\* new(parent), deps.go:249: empty maps.
EmptyInstances == [k \in TypeKeys |-> NoInst]
EmptyProviders == [k \in TypeKeys |-> NoLink]

Init ==
    /\ types = [k \in TypeKeys |-> Plain]
    /\ parent = (global :> NoParent)
    /\ dynamic = (global :> NoDynamic)
    /\ providers = (global :> EmptyProviders)
    /\ instances = (global :> EmptyInstances)
    /\ nextId = 1
    /\ calls = NoCalls
    /\ last = Idle

\* The objects counted against MaxObjects: the Dynamic callbacks too.
Objects(par, links, next) ==
    (Cardinality(DOMAIN par) - 1)
        + Cardinality({s \in DOMAIN dynamic : dynamic[s] # NoDynamic})
        + Cardinality({sk \in (DOMAIN par) \X TypeKeys : links[sk[1]][sk[2]] # NoLink})
        + (next - 1)

\* ------------------------------------------------------------ operations
\* Scope.Spawn / New: a child scope with empty maps.
Spawn(scope) ==
    /\ Cardinality(Scopes) < MaxScopes
    /\ Objects(parent, providers, nextId) < MaxObjects
    /\ LET child == Cardinality(Scopes) IN
        /\ parent' = parent @@ (child :> scope)
        /\ providers' = providers @@ (child :> EmptyProviders)
        /\ dynamic' = dynamic @@ (child :> NoDynamic)
        /\ instances' = instances @@ (child :> EmptyInstances)
        /\ last' = Idle
    /\ UNCHANGED <<calls, types, nextId>>

\* SetScoped with a pointer the caller allocated: the instance is stored
\* under its type key, over whatever was cached there.
SetScoped(scope, key, val) ==
    /\ Objects(parent, providers, nextId) < MaxObjects
    /\ LET inst == [id |-> nextId, val |-> val] IN
        /\ instances' = [instances EXCEPT ![scope][key] = inst]
        /\ last' = Op("Set", scope, <<[kind |-> ByPointer, key |-> key]>>, NoErr, inst,
                      <<>>, <<>>, <<>>)
    /\ nextId' = nextId + 1
    /\ UNCHANGED <<calls, types, parent, dynamic, providers>>

\* A slip of Scope.Set: an entry that is already cached is kept.
SetKeepingCached(scope, typ, val) ==
    /\ Objects(parent, providers, nextId) < MaxObjects
    /\ LET given == [id |-> IF typ.kind = ByPointer THEN nextId ELSE 0, val |-> val]
           stored == IF instances[scope][typ.key] # NoInst THEN instances[scope][typ.key]
                     ELSE [id |-> nextId, val |-> val] IN
        /\ instances' = [instances EXCEPT ![scope][typ.key] = stored]
        /\ last' = Op("Set", scope, <<typ>>, NoErr, given, <<>>, <<>>, <<>>)
    /\ nextId' = nextId + 1
    /\ UNCHANGED <<calls, types, parent, dynamic, providers>>

\* Scope.Set with a value of type `typ`: a pointer *V the caller allocated is
\* stored as it is under V; a value V is copied into a new V, which is stored
\* under V. Either way over whatever was cached there, and the error is nil.
Set(scope, typ, val) ==
    /\ Objects(parent, providers, nextId) < MaxObjects
    /\ LET given == [id |-> IF typ.kind = ByPointer THEN nextId ELSE 0, val |-> val]
           stored == [id |-> nextId, val |-> val] IN
        /\ instances' = [instances EXCEPT ![scope][typ.key] = stored]
        /\ last' = Op("Set", scope, <<typ>>, NoErr, given, <<>>, <<>>, <<>>)
    /\ nextId' = nextId + 1
    /\ UNCHANGED <<calls, types, parent, dynamic, providers>>

\* A slip of ProvideScoped: a link that is already registered is kept.
ProvideKeepingFirst(scope, key, provider) ==
    /\ LET links == IF providers[scope][key] # NoLink THEN providers
                    ELSE [providers EXCEPT ![scope][key] = provider] IN
        /\ Objects(parent, links, nextId) <= MaxObjects
        /\ providers' = links
    /\ last' = Op("Provide", scope, <<key>>, NoErr, NoInst, <<provider>>, <<>>, <<>>)
    /\ UNCHANGED <<calls, types, parent, dynamic, instances, nextId>>

\* ProvideScoped: the link of the type key is (re)placed; nothing else.
ProvideScoped(scope, key, provider) ==
    /\ LET links == [providers EXCEPT ![scope][key] = provider] IN
        /\ Objects(parent, links, nextId) <= MaxObjects
        /\ providers' = links
    /\ last' = Op("Provide", scope, <<key>>, NoErr, NoInst, <<provider>>, <<>>, <<>>)
    /\ UNCHANGED <<calls, types, parent, dynamic, instances, nextId>>

\* scope.Dynamic = callback: the field is public.
SetDynamic(scope, callback) ==
    /\ dynamic[scope] = NoDynamic
    /\ Objects(parent, providers, nextId) < MaxObjects
    /\ dynamic' = [dynamic EXCEPT ![scope] = callback]
    /\ last' = Idle
    /\ UNCHANGED <<calls, types, parent, providers, instances, nextId>>

\* ------------------------------------------------------------ resolution
\* The part of the state a resolution reads and writes, with the callbacks
\* run so far.
St0 == [instances |-> instances, nextId |-> nextId, events |-> <<>>]

\* What a resolution hands back: the state it left, the error, the instance.
Ret(st, err, inst) == [st |-> st, err |-> err, inst |-> inst]

\* A slip of providerLink.get: what a failed Create returned is cached.
LinkGetCachingFailure(st, scope, key, lnk, fails) ==
    LET value == st.instances[scope][key] IN
    IF value # NoInst THEN Ret(st, NoErr, value)
    ELSE IF ~lnk.create THEN Ret(st, ErrMissingCreate, NoInst)
    ELSE LET created == [id |-> st.nextId, val |-> InitVal] IN
        Ret([st EXCEPT !.instances[scope][key] = created,
                       !.nextId = @ + 1,
                       !.events = Append(@, Event("create", key, scope,
                                                  IF key \in fails THEN 0 ELSE created.id))],
            IF key \in fails THEN ErrCreate ELSE NoErr,
            IF key \in fails THEN NoInst ELSE created)

\* providerLink.get: the instance cached on `scope`, or a new one from
\* Create, cached on `scope`. Create is a callback of the application: it
\* returns a new instance, or fails when its key is in `fails`.
LinkGet(st, scope, key, lnk, fails) ==
    LET value == st.instances[scope][key] IN
    IF value # NoInst THEN Ret(st, NoErr, value)
    ELSE IF ~lnk.create THEN Ret(st, ErrMissingCreate, NoInst)
    ELSE IF key \in fails
        THEN Ret([st EXCEPT !.events = Append(@, Event("create", key, scope, 0))],
                 ErrCreate, NoInst)
    ELSE LET created == [id |-> st.nextId, val |-> InitVal] IN
        Ret([st EXCEPT !.instances[scope][key] = created,
                       !.nextId = @ + 1,
                       !.events = Append(@, Event("create", key, scope, created.id))],
            NoErr, created)

\* Scope.getLink: the link of the nearest scope, from `scope` up, that has one.
RECURSIVE getLink(_, _)
getLink(scope, key) ==
    IF providers[scope][key] # NoLink THEN providers[scope][key]
    ELSE IF parent[scope] # NoParent THEN getLink(parent[scope], key)
    ELSE NoLink

\* A slip of Scope.Get: the Scope lifetime of an inherited link is ignored.
RECURSIVE GetIgnoringScopeLifetime(_, _, _, _)
GetIgnoringScopeLifetime(st, scope, key, fails) ==
    IF st.instances[scope][key] # NoInst
        THEN Ret(st, NoErr, st.instances[scope][key])
    ELSE LET lnk == providers[scope][key] IN
    IF lnk = NoLink
        THEN LET par == IF parent[scope] # NoParent
                            THEN GetIgnoringScopeLifetime(st, parent[scope], key, fails)
                            ELSE Ret(st, ErrNoProvider, NoInst) IN
             IF par.err # ErrNoProvider THEN par
             ELSE Ret(st, ErrNoProvider, NoInst)
    ELSE LinkGet(st, scope, key, lnk, fails)

\* A slip of Scope.Get: every inherited link creates on the requesting scope.
GetCachingOnRequester(st, scope, key, fails) ==
    IF st.instances[scope][key] # NoInst
        THEN Ret(st, NoErr, st.instances[scope][key])
    ELSE LET deepLink == getLink(scope, key) IN
    IF deepLink # NoLink THEN LinkGet(st, scope, key, deepLink, fails)
    ELSE Ret(st, ErrNoProvider, NoInst)

\* The value a dynamic fallback hands over: a new one, cached nowhere.
Fresh == [id |-> FreshId, val |-> InitVal]

\* A slip of the fallback: what the Dynamic callback returns is returned
\* without the nil check.
FallbackReturningNothing(st, scope, key, fails) ==
    IF types[key].dynamic
        THEN Ret([st EXCEPT !.events = Append(@, Event("provideDynamic", key, scope, FreshId))],
                 IF key \in fails THEN ErrProvideDynamic ELSE NoErr,
                 IF key \in fails THEN NoInst ELSE Fresh)
    ELSE IF dynamic[scope] # NoDynamic
        THEN LET called == [st EXCEPT !.events = Append(@, Event("dynamic", key, scope, FreshId))] IN
             IF dynamic[scope] = DynError THEN Ret(called, ErrDynamic, NoInst)
             ELSE IF dynamic[scope] = DynValue THEN Ret(called, NoErr, Fresh)
             ELSE Ret(called, NoErr, NoInst)
    ELSE Ret(st, ErrNoProvider, NoInst)

\* A slip of the fallback: the scope's Dynamic callback is tried first.
FallbackCallbackFirst(st, scope, key, fails) ==
    LET called == [st EXCEPT !.events = Append(@, Event("dynamic", key, scope, FreshId))] IN
    IF dynamic[scope] = DynError THEN Ret(called, ErrDynamic, NoInst)
    ELSE IF dynamic[scope] = DynValue THEN Ret(called, NoErr, Fresh)
    ELSE LET tried == IF dynamic[scope] = NoDynamic THEN st ELSE called IN
    IF types[key].dynamic
        THEN Ret([tried EXCEPT !.events = Append(@, Event("provideDynamic", key, scope, FreshId))],
                 IF key \in fails THEN ErrProvideDynamic ELSE NoErr,
                 IF key \in fails THEN NoInst ELSE Fresh)
    ELSE Ret(tried, ErrNoProvider, NoInst)

\* A slip of the fallback: the value of a Dynamic callback is cached.
FallbackCaching(st, scope, key, fails) ==
    IF types[key].dynamic
        THEN Ret([st EXCEPT !.events = Append(@, Event("provideDynamic", key, scope, FreshId))],
                 IF key \in fails THEN ErrProvideDynamic ELSE NoErr,
                 IF key \in fails THEN NoInst ELSE Fresh)
    ELSE IF dynamic[scope] # NoDynamic
        THEN LET called == [st EXCEPT !.events = Append(@, Event("dynamic", key, scope, FreshId))] IN
             IF dynamic[scope] = DynError THEN Ret(called, ErrDynamic, NoInst)
             ELSE IF dynamic[scope] = DynValue
                THEN Ret([called EXCEPT !.instances[scope][key] = Fresh], NoErr, Fresh)
             ELSE Ret(called, ErrNoProvider, NoInst)
    ELSE Ret(st, ErrNoProvider, NoInst)

\* The dynamic fallback of Scope.Get (deps.go:300-316) on `scope`: the
\* ProvideDynamic of a new value of a type with the Dynamic capability, which
\* fails when the key is in `fails`; otherwise the scope's Dynamic callback,
\* if it has one.
Fallback(st, scope, key, fails) ==
    IF types[key].dynamic
        THEN Ret([st EXCEPT !.events = Append(@, Event("provideDynamic", key, scope, FreshId))],
                 IF key \in fails THEN ErrProvideDynamic ELSE NoErr,
                 IF key \in fails THEN NoInst ELSE Fresh)
    ELSE IF dynamic[scope] # NoDynamic
        THEN LET called == [st EXCEPT !.events = Append(@, Event("dynamic", key, scope, FreshId))] IN
             IF dynamic[scope] = DynError THEN Ret(called, ErrDynamic, NoInst)
             ELSE IF dynamic[scope] = DynValue THEN Ret(called, NoErr, Fresh)
             ELSE Ret(called, ErrNoProvider, NoInst)
    ELSE Ret(st, ErrNoProvider, NoInst)

RECURSIVE Get(_, _, _, _)

\* A slip of Scope.Get: an inherited link of the Once lifetime creates on the
\* requesting scope too, as one of the Scope lifetime does.
GetOnceOnRequester(st, scope, key, fails) ==
    IF st.instances[scope][key] # NoInst
        THEN Ret(st, NoErr, st.instances[scope][key])
    ELSE LET deepLink == getLink(scope, key) IN
    IF deepLink # NoLink /\ deepLink.lifetime \in {LifetimeScope, LifetimeOnce}
        THEN LinkGet(st, scope, key, deepLink, fails)
    ELSE LET lnk == providers[scope][key] IN
    IF lnk = NoLink
        THEN LET par == IF parent[scope] # NoParent
                            THEN Get(st, parent[scope], key, fails)
                            ELSE Ret(st, ErrNoProvider, NoInst) IN
             IF par.err # ErrNoProvider THEN par
             ELSE Fallback(par.st, scope, key, fails)
    ELSE LinkGet(st, scope, key, lnk, fails)

\* Scope.Get.
Get(st, scope, key, fails) ==
    IF st.instances[scope][key] # NoInst
        THEN Ret(st, NoErr, st.instances[scope][key])
    ELSE LET deepLink == getLink(scope, key) IN
    IF deepLink # NoLink /\ deepLink.lifetime = LifetimeScope
        THEN LinkGet(st, scope, key, deepLink, fails)
    ELSE LET lnk == providers[scope][key] IN
    IF lnk = NoLink
        THEN LET par == IF parent[scope] # NoParent
                            THEN Get(st, parent[scope], key, fails)
                            ELSE Ret(st, ErrNoProvider, NoInst) IN
             IF par.err # ErrNoProvider THEN par
             ELSE Fallback(par.st, scope, key, fails)
    ELSE LinkGet(st, scope, key, lnk, fails)

RECURSIVE GetScoped(_, _, _, _)

\* A slip of GetScoped: what the parent returned is cached on the requesting
\* scope as well.
GetScopedCachingInherited(st, scope, key, fails) ==
    IF st.instances[scope][key] # NoInst
        THEN Ret(st, NoErr, st.instances[scope][key])
    ELSE LET provider == providers[scope][key] IN
    IF provider = NoLink
        THEN LET par == IF parent[scope] # NoParent
                            THEN GetScoped(st, parent[scope], key, fails)
                            ELSE Ret(st, ErrNoProvider, NoInst) IN
             IF par.err = NoErr
                THEN Ret([par.st EXCEPT !.instances[scope][key] = par.inst], NoErr, par.inst)
             ELSE IF par.err # ErrNoProvider THEN par
             ELSE Fallback(par.st, scope, key, fails)
    ELSE IF ~provider.create THEN Ret(st, Panic, NoInst)
    ELSE IF key \in fails
        THEN Ret([st EXCEPT !.events = Append(@, Event("create", key, scope, 0))],
                 ErrCreate, NoInst)
    ELSE LET instance == [id |-> st.nextId, val |-> InitVal] IN
        Ret([st EXCEPT !.instances[scope][key] = instance,
                       !.nextId = @ + 1,
                       !.events = Append(@, Event("create", key, scope, instance.id))],
            NoErr, instance)

\* GetScoped[V]: the typed path. A local provider's Create is called directly
\* (a nil Create is a nil function call), and its result is cached on the
\* scope that owns the provider. The dynamic fallback is that of Scope.Get:
\* the values it hands over are of the type V asked for.
GetScoped(st, scope, key, fails) ==
    IF st.instances[scope][key] # NoInst
        THEN Ret(st, NoErr, st.instances[scope][key])
    ELSE LET provider == providers[scope][key] IN
    IF provider = NoLink
        THEN LET par == IF parent[scope] # NoParent
                            THEN GetScoped(st, parent[scope], key, fails)
                            ELSE Ret(st, ErrNoProvider, NoInst) IN
             IF par.err # ErrNoProvider THEN par
             ELSE Fallback(par.st, scope, key, fails)
    ELSE IF ~provider.create THEN Ret(st, Panic, NoInst)
    ELSE IF key \in fails
        THEN Ret([st EXCEPT !.events = Append(@, Event("create", key, scope, 0))],
                 ErrCreate, NoInst)
    ELSE LET instance == [id |-> st.nextId, val |-> InitVal] IN
        Ret([st EXCEPT !.instances[scope][key] = instance,
                       !.nextId = @ + 1,
                       !.events = Append(@, Event("create", key, scope, instance.id))],
            NoErr, instance)

\* -------------------------------------------------------------- teardown
\* A slip of providerLink.free: the entry is not deleted.
LinkFreeKeepingEntry(st, scope, key, lnk, fails) ==
    LET value == st.instances[scope][key]
        called == IF lnk.free
                    THEN [st EXCEPT !.events = Append(@, Event("free", key, scope, value.id))]
                    ELSE st
    IN Ret(called, IF lnk.free /\ key \in fails THEN FreeErr(key) ELSE NoErr, NoInst)

\* A slip of providerLink.free: the entry is deleted from every scope.
LinkFreeEverywhere(st, scope, key, lnk, fails) ==
    LET value == st.instances[scope][key]
        called == IF lnk.free
                    THEN [st EXCEPT !.events = Append(@, Event("free", key, scope, value.id))]
                    ELSE st
    IN Ret([called EXCEPT !.instances = [t \in DOMAIN @ |-> [@[t] EXCEPT ![key] = NoInst]]],
           IF lnk.free /\ key \in fails THEN FreeErr(key) ELSE NoErr, NoInst)

\* providerLink.free: the Free callback, if any, gets the instance cached on
\* `scope`; the entry is deleted whatever the callback returns.
LinkFree(st, scope, key, lnk, fails) ==
    LET value == st.instances[scope][key]
        called == IF lnk.free
                    THEN [st EXCEPT !.events = Append(@, Event("free", key, scope, value.id))]
                    ELSE st
    IN Ret([called EXCEPT !.instances[scope][key] = NoInst],
           IF lnk.free /\ key \in fails THEN FreeErr(key) ELSE NoErr, NoInst)

\* What a teardown hands back: the state it left and the errors collected.
Freed(st, errs) == [st |-> st, errs |-> errs]

\* The loop of Scope.Free / Scope.FreeOnce over scope.instances, in the order
\* `keys` the map iteration yields them. An entry with a link is freed through
\* the link (by FreeOnce only if the link's lifetime is Once); an entry
\* without a link is deleted.
RECURSIVE FreeLoop(_, _, _, _, _, _)
FreeLoop(st, scope, keys, onlyOnce, fails, errs) ==
    IF keys = <<>> THEN Freed(st, errs)
    ELSE LET key == Head(keys)
             lnk == getLink(scope, key) IN
        IF st.instances[scope][key] = NoInst
            THEN FreeLoop(st, scope, Tail(keys), onlyOnce, fails, errs)
        ELSE IF lnk = NoLink
            THEN FreeLoop([st EXCEPT !.instances[scope][key] = NoInst],
                          scope, Tail(keys), onlyOnce, fails, errs)
        ELSE IF onlyOnce /\ lnk.lifetime # LifetimeOnce
            THEN FreeLoop(st, scope, Tail(keys), onlyOnce, fails, errs)
        ELSE LET r == LinkFree(st, scope, key, lnk, fails) IN
            FreeLoop(r.st, scope, Tail(keys), onlyOnce, fails,
                     IF r.err # NoErr THEN Append(errs, r.err) ELSE errs)

\* A slip of Scope.FreeOnce: the lifetime of the link is not looked at.
FreeOnceOfAnyLifetime(st, scope, keys, fails) ==
    FreeLoop(st, scope, keys, FALSE, fails, <<>>)

\* Scope.FreeOnce.
FreeOnce(st, scope, keys, fails) == FreeLoop(st, scope, keys, TRUE, fails, <<>>)

\* A slip of Scope.Free: only the first error collected is returned.
FreeKeepingFirstError(st, scope, keys, fails) ==
    LET r == FreeLoop(st, scope, keys, FALSE, fails, <<>>) IN
    Freed(r.st, IF Len(r.errs) > 1 THEN <<r.errs[1]>> ELSE r.errs)

\* Scope.Free.
Free(st, scope, keys, fails) == FreeLoop(st, scope, keys, FALSE, fails, <<>>)

\* The orders in which a map iteration may yield the type keys.
KeyOrders ==
    {o \in [1..Cardinality(TypeKeys) -> TypeKeys] : \A k \in TypeKeys : \E i \in DOMAIN o : o[i] = k}

\* The order is observable only when two entries are torn down: otherwise
\* one order stands for all.
FirstOrder == CHOOSE o \in KeyOrders : TRUE
OrdersOf(observable) == IF observable THEN KeyOrders ELSE {FirstOrder}

\* The error a teardown returns: nil, or the multiError of what it collected.
MultiError == "multiError"
TeardownErr(errs) == IF Len(errs) > 0 THEN MultiError ELSE NoErr

\* multiError.Error: the text of the one error, or of all of them, joined.
RECURSIVE Join(_, _)
Join(strs, sep) ==
    IF Len(strs) = 0 THEN ""
    ELSE IF Len(strs) = 1 THEN strs[1]
    ELSE strs[1] \o sep \o Join(Tail(strs), sep)
Error(errs) ==
    IF Len(errs) = 1 THEN errs[1]
    ELSE "multiple errors: " \o Join(errs, ", ")

\* ------------------------------------------------------------- hydration
\* An error other than ErrNoProvider: one that ends a hydration.
Failed(err) == err \notin {NoErr, ErrNoProvider}

\* A value that is a copy of an instance's value and no instance itself.
Copy(val) == [id |-> 0, val |-> val]

\* The types of slots. A named type V of TypeKeys is [kind |-> ByValue, key
\* |-> V] and *V is [kind |-> ByPointer, key |-> V]; its declaration in
\* `types` lists its fields, none for a type such as `type Port int`. The
\* unnamed composites are struct{...}, [len]T, []T and map[string]T.
KindStruct == "struct"
KindArray == "array"
KindSlice == "slice"
KindMap == "map"
Named(key) == [kind |-> ByValue, key |-> key]
PointerTo(key) == [kind |-> ByPointer, key |-> key]
Field(typ, exported) == [typ |-> typ, exported |-> exported]
StructOf(fields) == [kind |-> KindStruct, fields |-> fields]
ArrayOf(typ, len) == [kind |-> KindArray, of |-> typ, len |-> len]
SliceOf(typ) == [kind |-> KindSlice, of |-> typ]
MapOf(typ) == [kind |-> KindMap, of |-> typ]

\* The fields of a struct type, named or not.
FieldsOf(typ) ==
    IF typ.kind = ByValue THEN types[typ.key].fields
    ELSE IF typ.kind = KindStruct THEN typ.fields
    ELSE <<>>

\* A value of a composite type: its fields, elements or map values, in order.
\* A nil slice or map has none.
Elems(vals) == [elems |-> vals]

\* reflect.New(typ).Elem(): the zero value of a type.
RECURSIVE Zero(_)
Zero(typ) ==
    IF typ.kind = ByPointer THEN NoInst
    ELSE IF typ.kind \in {KindSlice, KindMap} THEN Elems(<<>>)
    ELSE IF typ.kind = KindArray THEN Elems([i \in 1..typ.len |-> Zero(typ.of)])
    ELSE IF FieldsOf(typ) = <<>> THEN Copy(ZeroVal)
    ELSE Elems([i \in DOMAIN FieldsOf(typ) |-> Zero(FieldsOf(typ)[i].typ)])

\* fmt.Sprintf("%v", typ): the name a Dynamic callback sees.
RECURSIVE TypeName(_)
TypeName(typ) ==
    IF typ.kind = ByValue THEN typ.key
    ELSE IF typ.kind = ByPointer THEN "*" \o typ.key
    ELSE IF typ.kind = KindSlice THEN "[]" \o TypeName(typ.of)
    ELSE IF typ.kind = KindMap THEN "map[string]" \o TypeName(typ.of)
    ELSE IF typ.kind = KindArray THEN "[n]" \o TypeName(typ.of)
    ELSE "struct"

\* Scope.Get for a type that is no key of the registry maps: no scope has an
\* instance or a link for it and it has no Dynamic capability, so what is
\* left of Get is the Dynamic callbacks, from the root scope down. The
\* callbacks of DynamicProviders know the named types only: for any other
\* type the one that returns values returns nothing (deps_test.go:244).
RECURSIVE GetUnregistered(_, _, _)
GetUnregistered(st, scope, name) ==
    LET par == IF parent[scope] # NoParent
                    THEN GetUnregistered(st, parent[scope], name)
                    ELSE Ret(st, ErrNoProvider, NoInst) IN
    IF par.err # ErrNoProvider THEN par
    ELSE IF dynamic[scope] # NoDynamic
        THEN LET called == [par.st EXCEPT !.events =
                                Append(@, Event("dynamic", name, scope, FreshId))] IN
             IF dynamic[scope] = DynError THEN Ret(called, ErrDynamic, NoInst)
             ELSE Ret(called, ErrNoProvider, NoInst)
    ELSE Ret(par.st, ErrNoProvider, NoInst)

\* scope.Get(ptr.Type().Elem()), deps.go:387.
GetType(st, scope, typ, fails) ==
    IF typ.kind = ByValue THEN Get(st, scope, typ.key, fails)
    ELSE GetUnregistered(st, scope, TypeName(typ))

\* A reflect.Value that points at a slot: the slot's type, what it holds and
\* whether it can be set (it was not reached through an unexported field).
Slot(typ, val, settable) == [typ |-> typ, val |-> val, settable |-> settable]

\* The slots hydrateValue recurses into: the fields of a struct, the elements
\* of an array or slice. Being read-only is inherited.
ElemSlots(ptr) ==
    IF ptr.typ.kind \in {KindArray, KindSlice}
        THEN [i \in DOMAIN ptr.val.elems |-> Slot(ptr.typ.of, ptr.val.elems[i], ptr.settable)]
    ELSE [i \in DOMAIN FieldsOf(ptr.typ) |->
            Slot(FieldsOf(ptr.typ)[i].typ, ptr.val.elems[i],
                 ptr.settable /\ FieldsOf(ptr.typ)[i].exported)]

ValuesOf(slots) == [i \in DOMAIN slots |-> slots[i].val]

RECURSIVE hydrateElems(_, _, _, _, _)
RECURSIVE hydrateMap(_, _, _, _, _)
RECURSIVE hydrateValue(_, _, _, _)

\* A slip of hydrateValue: a slot that resolved is recursed into as well.
hydrateValueRecursingAlways(st, scope, ptr, fails) ==
    LET r == GetType(st, scope, ptr.typ, fails) IN
    LET got == IF r.err = NoErr /\ ptr.settable
                    THEN [ptr EXCEPT !.val = IF FieldsOf(ptr.typ) = <<>> THEN Copy(r.inst.val)
                                             ELSE Zero(ptr.typ)]
                    ELSE ptr IN
    IF Failed(r.err) THEN Ret(r.st, r.err, ptr.val)
    ELSE IF ptr.typ.kind = ByPointer THEN Ret(r.st, NoErr, got.val)
    ELSE IF ptr.typ.kind = KindMap
        THEN hydrateMap(r.st, scope, got, fails, 1)
    ELSE IF ElemSlots(got) = <<>> THEN Ret(r.st, NoErr, got.val)
    ELSE LET e == hydrateElems(r.st, scope, ElemSlots(got), fails, 1) IN
         Ret(e.st, e.err, Elems(ValuesOf(e.inst)))

\* A slip of the element loops: an error of an element does not end the loop.
RECURSIVE hydrateElemsContinuing(_, _, _, _, _)
hydrateElemsContinuing(st, scope, slots, fails, i) ==
    IF i > Len(slots) THEN Ret(st, NoErr, slots)
    ELSE LET r == hydrateValue(st, scope, slots[i], fails) IN
         LET done == [slots EXCEPT ![i].val = r.inst] IN
         LET rest == hydrateElemsContinuing(r.st, scope, done, fails, i + 1) IN
         IF r.err # NoErr THEN Ret(rest.st, r.err, rest.inst) ELSE rest

\* Scope.hydrateValue(ptr): the slot's new value and the error. A slot whose
\* type resolves gets a copy of the instance's value if it can be set; any
\* error but ErrNoProvider is returned. On ErrNoProvider a pointer slot is
\* left as it is, nil or not, and a struct, array or slice is hydrated
\* element by element, in place, up to the first error.
hydrateValue(st, scope, ptr, fails) ==
    LET r == GetType(st, scope, ptr.typ, fails) IN
    IF r.err # ErrNoProvider
        THEN Ret(r.st, r.err, IF r.err = NoErr /\ ptr.settable THEN Copy(r.inst.val) ELSE ptr.val)
    ELSE IF ptr.typ.kind = ByPointer THEN Ret(r.st, NoErr, ptr.val)
    ELSE IF ptr.typ.kind = KindMap
        THEN hydrateMap(r.st, scope, ptr, fails, 1)
    ELSE IF ElemSlots(ptr) = <<>> THEN Ret(r.st, NoErr, ptr.val)
    ELSE LET e == hydrateElems(r.st, scope, ElemSlots(ptr), fails, 1) IN
         Ret(e.st, e.err, Elems(ValuesOf(e.inst)))

\* The loops over the elements of an array or slice and over the fields of a
\* struct (deps.go:404-425).
hydrateElems(st, scope, slots, fails, i) ==
    IF i > Len(slots) THEN Ret(st, NoErr, slots)
    ELSE LET r == hydrateValue(st, scope, slots[i], fails) IN
         LET done == [slots EXCEPT ![i].val = r.inst] IN
         IF r.err # NoErr THEN Ret(r.st, r.err, done)
         ELSE hydrateElems(r.st, scope, done, fails, i + 1)

\* The loop over the keys of a map (deps.go:426-437): each value is replaced
\* by a hydrated new value of its type; SetMapIndex on a map reached through
\* an unexported field panics. The keys come in no fixed order, which makes
\* no difference here: the values are of one type, and an error that ends the
\* loop ends it at the first key.
hydrateMap(st, scope, ptr, fails, i) ==
    IF i > Len(ptr.val.elems) THEN Ret(st, NoErr, ptr.val)
    ELSE LET r == hydrateValue(st, scope, Slot(ptr.typ.of, Zero(ptr.typ.of), TRUE), fails) IN
         IF r.err # NoErr THEN Ret(r.st, r.err, ptr.val)
         ELSE IF ~ptr.settable THEN Ret(r.st, Panic, ptr.val)
         ELSE hydrateMap(r.st, scope, [ptr EXCEPT !.val.elems[i] = r.inst], fails, i + 1)

\* A slip of hydrateType: ErrNoProvider is handed to the caller.
hydrateTypeStrict(st, scope, typ, fails) ==
    IF typ.kind = ByPointer
        THEN Get(st, scope, typ.key, fails)
    ELSE LET r == GetType(st, scope, typ, fails) IN
         IF r.err = ErrNoProvider THEN r
         ELSE hydrateValue(st, scope, Slot(typ, Zero(typ), TRUE), fails)

\* Scope.hydrateType: the argument for a parameter of type `typ`. A pointer
\* parameter gets the resolved instance itself; if there is none, and for
\* every other type, a new value of the type is hydrated.
hydrateType(st, scope, typ, fails) ==
    LET r == IF typ.kind = ByPointer
                THEN Get(st, scope, typ.key, fails)
                ELSE Ret(st, ErrNoProvider, NoInst) IN
    IF r.err # ErrNoProvider THEN r
    ELSE hydrateValue(r.st, scope, Slot(typ, Zero(typ), TRUE), fails)

\* What the argument loop of Invoke hands back.
Resolved(st, err, args) == [st |-> st, err |-> err, args |-> args]

\* The first loop of Scope.Invoke (deps.go:470-479): one argument per
\* parameter, in order, stopping at the first error.
RECURSIVE resolveArgs(_, _, _, _, _)
resolveArgs(st, scope, params, fails, args) ==
    IF Len(args) = Len(params) THEN Resolved(st, NoErr, args)
    ELSE LET r == hydrateType(st, scope, params[Len(args) + 1], fails) IN
        IF r.err # NoErr THEN Resolved(r.st, r.err, args)
        ELSE resolveArgs(r.st, scope, params, fails, Append(args, r.inst))

\* The writes of a function that writes through every non-nil pointer it was
\* given, in parameter order: the instance holds WrittenVal afterwards.
RECURSIVE writeArgs(_, _, _, _)
writeArgs(st, params, args, i) ==
    IF i > Len(params) THEN st
    ELSE IF params[i].kind = ByPointer /\ args[i] # NoInst
        THEN writeArgs(
                [st EXCEPT !.events = Append(@, Event("write", params[i].key, global, args[i].id)),
                           !.instances =
                                [s \in DOMAIN @ |-> [k \in TypeKeys |->
                                    IF @[s][k].id = args[i].id
                                        THEN [@[s][k] EXCEPT !.val = WrittenVal]
                                        ELSE @[s][k]]]],
                params, args, i + 1)
    ELSE writeArgs(st, params, args, i + 1)

\* fnValue.Call(args): the function runs, and writes if it is one that does.
call(st, fn, args) ==
    LET ran == [st EXCEPT !.events = Append(@, Event("call", "", global, 0))] IN
    IF fn.writes THEN writeArgs(ran, fn.params, args, 1) ELSE ran

\* providerLink.afterPointerUse: the callback, if any, gets the instance
\* cached on `scope`; asserting the type of a missing entry panics.
afterPointerUse(st, scope, key, lnk, fails) ==
    IF ~lnk.after THEN Ret(st, NoErr, NoInst)
    ELSE LET value == st.instances[scope][key] IN
        IF value = NoInst THEN Ret(st, Panic, NoInst)
        ELSE Ret([st EXCEPT !.events = Append(@, Event("after", key, scope, value.id))],
                 IF key \in fails THEN ErrAfterUse ELSE NoErr, value)

\* The second loop of Scope.Invoke (deps.go:483-495): for each pointer
\* argument whose type has a link on the invoking scope itself, the link's
\* afterPointerUse; the first error ends the loop.
RECURSIVE notifyArgs(_, _, _, _, _)
notifyArgs(st, scope, params, fails, i) ==
    IF i > Len(params) THEN Ret(st, NoErr, NoInst)
    ELSE LET lnk == providers[scope][params[i].key] IN
        IF params[i].kind = ByPointer /\ lnk # NoLink
            THEN LET r == afterPointerUse(st, scope, params[i].key, lnk, fails) IN
                 IF r.err # NoErr THEN Ret(r.st, r.err, NoInst)
                 ELSE notifyArgs(r.st, scope, params, fails, i + 1)
        ELSE notifyArgs(st, scope, params, fails, i + 1)

\* A slip of Scope.Invoke: the notifications run before the function.
InvokeNotifyingFirst(st, scope, fn, keys, fails) ==
    IF ~fn.func THEN Resolved(st, ErrNotFunc, <<>>)
    ELSE LET a == resolveArgs(st, scope, fn.params, fails.create, <<>>) IN
    IF a.err # NoErr THEN Resolved(a.st, a.err, <<>>)
    ELSE LET n == notifyArgs(a.st, scope, fn.params, fails.after, 1) IN
    IF n.err # NoErr THEN Resolved(n.st, n.err, a.args)
    ELSE Resolved(FreeOnce(call(n.st, fn, a.args), scope, keys, {}).st, NoErr, a.args)

\* A slip of Scope.Invoke: the notifications run although an argument failed.
InvokeNotifyingOnError(st, scope, fn, keys, fails) ==
    IF ~fn.func THEN Resolved(st, ErrNotFunc, <<>>)
    ELSE LET a == resolveArgs(st, scope, fn.params, fails.create, <<>>) IN
    IF a.err # NoErr
        THEN Resolved(notifyArgs(a.st, scope, fn.params, fails.after, 1).st, a.err, <<>>)
    ELSE LET n == notifyArgs(call(a.st, fn, a.args), scope, fn.params, fails.after, 1) IN
    IF n.err # NoErr THEN Resolved(n.st, n.err, a.args)
    ELSE Resolved(FreeOnce(n.st, scope, keys, {}).st, NoErr, a.args)

\* Scope.Invoke. `args` are the arguments the function was called with. The
\* error FreeOnce returns is dropped.
Invoke(st, scope, fn, keys, fails) ==
    IF ~fn.func THEN Resolved(st, ErrNotFunc, <<>>)
    ELSE LET a == resolveArgs(st, scope, fn.params, fails.create, <<>>) IN
    IF a.err # NoErr THEN Resolved(a.st, a.err, <<>>)
    ELSE LET n == notifyArgs(call(a.st, fn, a.args), scope, fn.params, fails.after, 1) IN
    IF n.err # NoErr THEN Resolved(n.st, n.err, a.args)
    ELSE Resolved(FreeOnce(n.st, scope, keys, {}).st, NoErr, a.args)

\* Scope.Hydrate(&v) for a variable v of any type, holding any value.
Var(typ, val) == [typ |-> typ, val |-> val]
HydrateVar(st, scope, var, fails) ==
    hydrateValue(st, scope, Slot(var.typ, var.val, TRUE), fails)

\* A slip of Scope.Hydrate: the Once values are freed before it returns.
HydrateFreeingOnce(st, scope, target, fails) ==
    IF target.kind # ByPointer THEN Ret(st, ErrNotPointer, Copy(ZeroVal))
    ELSE LET r == hydrateValue(st, scope, Slot(Named(target.key), Zero(Named(target.key)), TRUE), fails) IN
        Ret(FreeOnce(r.st, scope, FirstOrder, {}).st, r.err, r.inst)

\* Scope.Hydrate on a variable of a provided type holding the zero value,
\* passed by pointer or, wrongly, by value.
Hydrate(st, scope, target, fails) ==
    IF target.kind # ByPointer THEN Ret(st, ErrNotPointer, Copy(ZeroVal))
    ELSE HydrateVar(st, scope, Var(Named(target.key), Zero(Named(target.key))), fails)

\* The state an operation leaves becomes the state of the program; an
\* operation that would allocate beyond MaxObjects is not taken.
Commit(st) ==
    /\ Objects(parent, providers, st.nextId) <= MaxObjects
    /\ instances' = st.instances
    /\ nextId' = st.nextId
    /\ UNCHANGED <<calls, types, parent, dynamic, providers>>

\* scope.Get(key) called by the application.
ScopeGet(scope, key, fails) ==
    \E r \in {Get(St0, scope, key, fails)} :
    /\ Commit(r.st)
    /\ last' = Op("Get", scope, <<key>>, r.err, r.inst, <<>>, <<>>, r.st.events)

\* GetScoped[V](scope) called by the application.
TypedGet(scope, key, fails) ==
    \E r \in {GetScoped(St0, scope, key, fails)} :
    /\ Commit(r.st)
    /\ last' = Op("GetScoped", scope, <<key>>, r.err, r.inst, <<>>, <<>>, r.st.events)

\* scope.Free() called by the application.
ScopeFree(scope, keys, fails) ==
    \E r \in {Free(St0, scope, keys, fails)} :
    /\ Commit(r.st)
    /\ last' = Op("Free", scope, <<>>, TeardownErr(r.errs), NoInst, <<>>, r.errs,
                  r.st.events)

\* scope.FreeOnce() called by the application.
ScopeFreeOnce(scope, keys, fails) ==
    \E r \in {FreeOnce(St0, scope, keys, fails)} :
    /\ Commit(r.st)
    /\ last' = Op("FreeOnce", scope, <<>>, TeardownErr(r.errs), NoInst, <<>>, r.errs,
                  r.st.events)

\* scope.Hydrate(&v) called by the application.
ScopeHydrate(scope, target, fails) ==
    \E r \in {Hydrate(St0, scope, target, fails)} :
    /\ Commit(r.st)
    /\ last' = Op("Hydrate", scope, <<target>>, r.err, r.inst, <<>>, <<>>, r.st.events)

\* scope.Hydrate(&v) called by the application on a variable of any type.
ScopeHydrateVar(scope, var, fails) ==
    \E r \in {HydrateVar(St0, scope, var, fails)} :
    /\ Commit(r.st)
    /\ last' = Op("Hydrate", scope, <<var>>, r.err, r.inst, <<>>, <<>>, r.st.events)

\* scope.Invoke(fn) called by the application.
ScopeInvoke(scope, fn, keys, fails) ==
    \E r \in {Invoke(St0, scope, fn, keys, fails)} :
    /\ Commit(r.st)
    /\ last' = Op("Invoke", scope, fn.params, r.err, NoInst, r.args, <<>>, r.st.events)

\* The application takes the result of its call.
Return ==
    /\ last # Idle
    /\ last' = Idle
    /\ UNCHANGED <<calls, types, parent, dynamic, providers, instances, nextId>>

\* The application, holding no result, makes its next call, over all the
\* arguments it may pass and all the outcomes of the callbacks the call can
\* reach.
Cached(scope) == {k \in TypeKeys : instances[scope][k] # NoInst}
Creatable(scope, keys) ==
    {k \in keys : \/ getLink(scope, k).create
                  \/ getLink(scope, k) = NoLink /\ types[k].dynamic}

SpawnCall == last = Idle /\ \E s \in Scopes : Spawn(s)

SetCall == last = Idle /\ \E s \in Scopes, k \in TypeKeys : SetScoped(s, k, InitVal)

ProvideCall ==
    last = Idle /\ \E s \in Scopes, k \in TypeKeys, p \in Providers : ProvideScoped(s, k, p)

GetCall ==
    last = Idle /\ \E s \in Scopes, k \in TypeKeys :
                    \E f \in SUBSET Creatable(s, {k}) : ScopeGet(s, k, f)

GetScopedCall ==
    last = Idle /\ \E s \in Scopes, k \in TypeKeys :
                    \E f \in SUBSET Creatable(s, {k}) : TypedGet(s, k, f)

FreeCall ==
    last = Idle /\ \E s \in Scopes :
                    \E o \in OrdersOf(Cached(s) = TypeKeys), f \in SUBSET Cached(s) :
                        ScopeFree(s, o, f)

FreeOnceCall ==
    last = Idle /\ \E s \in Scopes :
                    \E o \in OrdersOf(Cached(s) = TypeKeys), f \in SUBSET Cached(s) :
                        ScopeFreeOnce(s, o, f)

HydrateCall ==
    last = Idle /\ \E s \in Scopes, t \in ParamTypes :
                    \E f \in SUBSET Creatable(s, {t.key}) : ScopeHydrate(s, t, f)

InvokeCall ==
    last = Idle /\ \E s \in Scopes, fn \in Funcs \cup {NotAFunc} :
        \E o \in OrdersOf(\A k \in TypeKeys : getLink(s, k).lifetime = LifetimeOnce),
           f \in Failures(Creatable(s, KeysOf(fn.params, {ByValue, ByPointer})),
                          {k \in KeysOf(fn.params, {ByPointer}) : providers[s][k].after}) :
            ScopeInvoke(s, fn, o, f)

Next ==
    \/ SpawnCall
    \/ SetCall
    \/ ProvideCall
    \/ GetCall
    \/ GetScopedCall
    \/ FreeCall
    \/ FreeOnceCall
    \/ HydrateCall
    \/ InvokeCall
    \/ Return

Spec == Init /\ [][Next]_vars

\* ------------------------------------------------- a program with dynamics
\* A program whose type Env implements Dynamic, which sets Dynamic callbacks
\* on its scopes, registers providers with and without a Create function and
\* resolves through Scope.Get and GetScoped.
Declared(dyn, fields) == [dynamic |-> dyn, fields |-> fields]

InitDynamic ==
    /\ types = [k \in TypeKeys |-> IF k = "Env" THEN Declared(TRUE, <<>>) ELSE Plain]
    /\ parent = (global :> NoParent)
    /\ dynamic = (global :> NoDynamic)
    /\ providers = (global :> EmptyProviders)
    /\ instances = (global :> EmptyInstances)
    /\ nextId = 1
    /\ calls = NoCalls
    /\ last = Idle

\* Providers without callbacks other than Create, and one without Create.
BareProviders ==
    [lifetime : Lifetimes, create : {TRUE}, after : {FALSE}, free : {FALSE}]
        \cup [lifetime : {LifetimeForever}, create : {FALSE}, after : {FALSE}, free : {FALSE}]

ProvideBareCall ==
    last = Idle /\ \E s \in Scopes, k \in TypeKeys, p \in BareProviders : ProvideScoped(s, k, p)

SetDynamicCall ==
    last = Idle /\ \E s \in Scopes, c \in DynamicProviders : SetDynamic(s, c)

\* scope.Set(&v) and scope.Set(v).
SetAnyCall ==
    last = Idle /\ \E s \in Scopes, t \in ParamTypes : Set(s, t, SetVal)

NextDynamic ==
    \/ SpawnCall
    \/ SetAnyCall
    \/ ProvideBareCall
    \/ SetDynamicCall
    \/ GetCall
    \/ GetScopedCall
    \/ FreeCall
    \/ Return

SpecDynamic == InitDynamic /\ [][NextDynamic]_vars

\* ------------------------------------------------ a program with composites
\* A program whose type Env is `struct { Port Port }` (deps_test.go:146) and
\* which hydrates variables and invokes functions of composite types.
InitComposite ==
    /\ types = [k \in TypeKeys |->
                    IF k = "Env" THEN Declared(FALSE, <<Field(Named("Port"), TRUE)>>)
                    ELSE Plain]
    /\ parent = (global :> NoParent)
    /\ dynamic = (global :> NoDynamic)
    /\ providers = (global :> EmptyProviders)
    /\ instances = (global :> EmptyInstances)
    /\ nextId = 1
    /\ calls = NoCalls
    /\ last = Idle

\* struct { Env Env; Port Port } and struct { Port Port; Env Env }.
EnvThenPort == StructOf(<<Field(Named("Env"), TRUE), Field(Named("Port"), TRUE)>>)
PortThenEnv == StructOf(<<Field(Named("Port"), TRUE), Field(Named("Env"), TRUE)>>)
\* struct { port Port; Ptr *Port; byName map[string]Port }.
Hidden ==
    StructOf(<<Field(Named("Port"), FALSE), Field(PointerTo("Port"), TRUE),
               Field(MapOf(Named("Port")), FALSE)>>)

CompositeTypes ==
    {Named("Port"), Named("Env"), EnvThenPort, PortThenEnv, Hidden,
     ArrayOf(Named("Port"), 1), ArrayOf(Named("Env"), 2),
     SliceOf(Named("Port")), MapOf(Named("Env"))}

\* What a pointer of the application points at: a value of its own.
Own == [id |-> FreshId, val |-> SetVal]

\* The variables handed to Hydrate: one of each type holding its zero value,
\* a slice and maps with entries, a struct with its pointer set.
Variables ==
    {Var(t, Zero(t)) : t \in CompositeTypes}
        \cup {Var(SliceOf(Named("Port")), Elems(<<Copy(ZeroVal), Copy(SetVal)>>)),
              Var(MapOf(Named("Env")), Elems(<<Elems(<<Copy(SetVal)>>)>>)),
              Var(Hidden, Elems(<<Copy(ZeroVal), Own, Elems(<<>>)>>)),
              Var(Hidden, Elems(<<Copy(ZeroVal), NoInst, Elems(<<Copy(SetVal)>>)>>))}

\* The functions invoked: one parameter of each type, a pointer, and the
\* four parameters of deps_test.go:107.
CompositeFuncs ==
    {[func |-> TRUE, params |-> <<t>>, writes |-> FALSE] :
        t \in CompositeTypes \cup {PointerTo("Port")}}
        \cup {[func |-> TRUE, writes |-> FALSE,
               params |-> <<SliceOf(Named("Env")), MapOf(Named("Env")), Named("Port"),
                            PointerTo("Port")>>]}

HydrateVarCall ==
    last = Idle /\ \E s \in Scopes, v \in Variables :
                    \E f \in SUBSET Creatable(s, TypeKeys) : ScopeHydrateVar(s, v, f)

InvokeCompositeCall ==
    last = Idle /\ \E s \in Scopes, fn \in CompositeFuncs :
        \E o \in OrdersOf(\A k \in TypeKeys : getLink(s, k).lifetime = LifetimeOnce),
           f \in Failures(Creatable(s, TypeKeys), {}) :
            ScopeInvoke(s, fn, o, f)

NextComposite ==
    \/ SpawnCall
    \/ SetCall
    \/ ProvideBareCall
    \/ SetDynamicCall
    \/ HydrateVarCall
    \/ InvokeCompositeCall
    \/ Return

SpecComposite == InitComposite /\ [][NextComposite]_vars

\* ------------------------------------------- a program whose callbacks fail
\* A program whose type Env implements Dynamic, which registers providers
\* with Create and AfterPointerUse callbacks and providers without Create,
\* sets Dynamic callbacks on its scopes and invokes functions.
FailingProviders ==
    [lifetime : {LifetimeForever, LifetimeOnce}, create : {TRUE}, after : {TRUE}, free : {FALSE}]
        \cup [lifetime : {LifetimeForever}, create : {FALSE}, after : {FALSE}, free : {FALSE}]

ProvideFailingCall ==
    last = Idle /\ \E s \in Scopes, k \in TypeKeys, p \in FailingProviders :
                    ProvideScoped(s, k, p)

NextFailing ==
    \/ SpawnCall
    \/ ProvideFailingCall
    \/ SetDynamicCall
    \/ InvokeCall
    \/ Return

SpecFailing == InitDynamic /\ [][NextFailing]_vars

\* ------------------------------------------------ a program with goroutines
\* A program that builds its scopes and registers its providers from one
\* goroutine and then calls Scope.Get from several, without serializing the
\* calls. The engine holds no lock (deps.go:236-242 has no mutex), so the
\* statements of two calls interleave: a call reads the instance maps
\* (deps.go:285, 196), runs Create (deps.go:201) and writes the map of the
\* scope it creates on (deps.go:205), and another call may take its steps in
\* between.
Quiet == \A c \in Callers : calls[c].pc = PcIdle

RaceSpawnCall == Quiet /\ SpawnCall

RaceProvideCall == Quiet /\ ProvideBareCall

RaceReturn == Quiet /\ Return

\* go scope.Get(key): the goroutine enters Scope.Get.
GoGet(c, scope, key) ==
    /\ last = Idle
    /\ calls[c].pc = PcIdle
    /\ calls' = [calls EXCEPT ![c] = Call(PcRead, scope, key, scope, NoErr, NoInst, <<>>)]
    /\ UNCHANGED <<types, parent, dynamic, providers, instances, nextId, last>>

\* The reads of Scope.Get and providerLink.get, up to the nil check of
\* deps.go:197: the call returns what is cached or the error of a resolution
\* that reaches no Create, or goes on to Create for the scope whose map
\* providerLink.get has read.
ReadStep(c) ==
    /\ calls[c].pc = PcRead
    /\ \E r \in {Get(St0, calls[c].scope, calls[c].key, {})} :
        calls' = [calls EXCEPT ![c] =
            IF r.st.events # <<>> /\ r.st.events[Len(r.st.events)].ev = "create"
                THEN Call(PcCreate, calls[c].scope, calls[c].key,
                          r.st.events[Len(r.st.events)].scope, NoErr, NoInst, <<>>)
            ELSE Call(PcDone, calls[c].scope, calls[c].key, calls[c].target,
                      r.err, r.inst, r.st.events)]
    /\ UNCHANGED <<types, parent, dynamic, providers, instances, nextId, last>>

\* link.provider.Create(scope), deps.go:201-204: a new instance, or an error,
\* with which the call returns.
CreateStep(c) ==
    /\ calls[c].pc = PcCreate
    /\ \E ok \in BOOLEAN :
        IF ok
            THEN /\ Objects(parent, providers, nextId) < MaxObjects
                 /\ LET created == [id |-> nextId, val |-> InitVal] IN
                    calls' = [calls EXCEPT ![c] =
                        Call(PcWrite, calls[c].scope, calls[c].key, calls[c].target, NoErr,
                             created,
                             <<Event("create", calls[c].key, calls[c].target, created.id)>>)]
                 /\ nextId' = nextId + 1
            ELSE /\ calls' = [calls EXCEPT ![c] =
                        Call(PcDone, calls[c].scope, calls[c].key, calls[c].target, ErrCreate,
                             NoInst, <<Event("create", calls[c].key, calls[c].target, 0)>>)]
                 /\ UNCHANGED nextId
    /\ UNCHANGED <<types, parent, dynamic, providers, instances, last>>

\* A slip of providerLink.get: an entry written in the meantime is kept.
WriteStepKeepingFirst(c) ==
    /\ calls[c].pc = PcWrite
    /\ instances' = IF instances[calls[c].target][calls[c].key] # NoInst THEN instances
                    ELSE [instances EXCEPT ![calls[c].target][calls[c].key] = calls[c].inst]
    /\ calls' = [calls EXCEPT ![c].pc = PcDone]
    /\ UNCHANGED <<types, parent, dynamic, providers, nextId, last>>

\* scope.instances[link.key] = created, deps.go:205-208: the map entry is
\* assigned, over whatever it holds, and the call returns what it created.
WriteStep(c) ==
    /\ calls[c].pc = PcWrite
    /\ instances' = [instances EXCEPT ![calls[c].target][calls[c].key] = calls[c].inst]
    /\ calls' = [calls EXCEPT ![c].pc = PcDone]
    /\ UNCHANGED <<types, parent, dynamic, providers, nextId, last>>

\* The goroutine takes the result of its call.
ReturnStep(c) ==
    /\ calls[c].pc = PcDone
    /\ calls' = [calls EXCEPT ![c] = NoCall]
    /\ UNCHANGED <<types, parent, dynamic, providers, instances, nextId, last>>

\* The map a call is about to assign is being assigned or read by another
\* call: a data race on a Go map. Besides letting the accesses through as if
\* they had happened one after the other (the steps above), the runtime may
\* detect the race and end the program ("fatal error: concurrent map writes",
\* "concurrent map read and map write"): no call returns.
Racing(c, d) ==
    /\ c # d
    /\ calls[c].pc = PcWrite
    /\ \/ calls[d].pc = PcWrite /\ calls[d].target = calls[c].target
       \/ calls[d].pc = PcRead /\ calls[c].target \in Chain(calls[d].scope)

Fatal ==
    /\ \E c, d \in Callers : Racing(c, d)
    /\ calls' = [c \in Callers |-> [calls[c] EXCEPT !.pc = PcFatal]]
    /\ UNCHANGED <<types, parent, dynamic, providers, instances, nextId, last>>

GoGetCall == \E c \in Callers, s \in Scopes, k \in TypeKeys : GoGet(c, s, k)
ReadCall == \E c \in Callers : ReadStep(c)
CreateCall == \E c \in Callers : CreateStep(c)
WriteCall == \E c \in Callers : WriteStep(c)
ReturnCall == \E c \in Callers : ReturnStep(c)

NextRace ==
    \/ RaceSpawnCall
    \/ RaceProvideCall
    \/ RaceReturn
    \/ GoGetCall
    \/ ReadCall
    \/ CreateCall
    \/ WriteCall
    \/ ReturnCall
    \/ Fatal

SpecRace == Init /\ [][NextRace]_vars

\* ---------------------------------------------------------------- claims
\* The nearest scope, from `scope` up, that has a link for `key` (a scope of
\* the chain that has one exists).
RECURSIVE Owner(_, _)
Owner(scope, key) ==
    IF providers[scope][key] # NoLink \/ parent[scope] = NoParent THEN scope
    ELSE Owner(parent[scope], key)

\* The scopes strictly below `top` on the chain of `scope`.
Below(scope, top) == {s \in Chain(scope) : top \in Chain(s) /\ s # top}

\* The events of one kind, in order, and those of one kind and key.
EventsOf(events, ev) == SelectSeq(events, LAMBDA e : e.ev = ev)
EventsFor(events, ev, key) == SelectSeq(events, LAMBDA e : e.ev = ev /\ e.key = key)

\* C1 (as stated): a constant stored on scope s for a type that has no provider
\* anywhere stays cached on s over every Get, Hydrate and Invoke on s, and
\* Get on s returns it.
C1_ConstantStable ==
    [][\A s \in Scopes, k \in TypeKeys :
        (/\ instances[s][k] # NoInst
         /\ \A a \in Scopes : providers[a][k] = NoLink
         /\ last'.op \in {"Get", "Hydrate", "Invoke"}
         /\ last'.scope = s)
        => /\ instances'[s][k].id = instances[s][k].id
           /\ (last'.op = "Get" /\ last'.arg = <<k>>) => last'.inst = instances[s][k]]_vars

\* C2: when the nearest link of key k above scope d (d has none itself) has
\* lifetime Scope, a successful Scope.Get(k) on d that finds nothing cached on
\* d calls Create once, caches the new instance on d and returns it, and
\* changes the instance map of no other scope; Free on d passes d's instance
\* to the link's Free callback and removes it from d.
C2_ScopeLifetimeOnRequester ==
    [][\A d \in Scopes, k \in TypeKeys :
        (/\ providers[d][k] = NoLink
         /\ getLink(d, k).lifetime = LifetimeScope
         /\ last'.scope = d)
        => /\ (/\ last'.op = "Get"
               /\ last'.arg = <<k>>
               /\ last'.err = NoErr
               /\ instances[d][k] = NoInst)
              => /\ last'.events = <<Event("create", k, d, nextId)>>
                 /\ last'.inst.id = nextId
                 /\ instances'[d][k] = last'.inst
                 /\ \A s \in Scopes \ {d} : instances'[s] = instances[s]
           /\ (last'.op = "Free" /\ instances[d][k] # NoInst /\ getLink(d, k).free)
              => /\ Len(EventsFor(last'.events, "free", k)) = 1
                 /\ EventsFor(last'.events, "free", k)[1].id = instances[d][k].id
                 /\ EventsFor(last'.events, "free", k)[1].scope = d
                 /\ instances'[d][k] = NoInst]_vars

\* C2 witness: Get on a grandchild of the scope that owns a Scope-lifetime
\* link has created the instance and cached it on the grandchild.
C2_Witness ==
    \E k \in TypeKeys :
        /\ last.op = "Get"
        /\ last.arg = <<k>>
        /\ last.err = NoErr
        /\ Len(last.events) = 1
        /\ instances[last.scope][k] = last.inst
        /\ Cardinality(Below(last.scope, Owner(last.scope, k))) = 2
        /\ getLink(last.scope, k).lifetime = LifetimeScope

\* C3 (as stated): with a Scope-lifetime link on the global scope and nothing
\* cached, a successful GetScoped from a child scope that has no link of its
\* own stores the new instance on the child and not on the global scope.
C3_TypedGetOnRequester ==
    [][\A d \in Scopes \ {global}, k \in TypeKeys :
        (/\ providers[global][k].lifetime = LifetimeScope
         /\ \A s \in Below(d, global) : providers[s][k] = NoLink
         /\ \A s \in Chain(d) : instances[s][k] = NoInst
         /\ last'.op = "GetScoped"
         /\ last'.scope = d
         /\ last'.arg = <<k>>
         /\ last'.err = NoErr)
        => /\ instances'[d][k] = last'.inst
           /\ instances'[global][k] = NoInst]_vars

\* C4: when the nearest link of key k from scope d is a Forever link on scope
\* p and no scope below p on d's chain caches k, a successful Scope.Get(k)
\* on d returns the instance cached on p without calling Create, or, if p
\* caches none, calls Create once and caches the new instance on p only; and
\* no Get, GetScoped, Hydrate, Invoke or FreeOnce anywhere, nor a Free of
\* another scope, removes or replaces the instance cached on p.
C4_ForeverOnOwner ==
    [][\A d \in Scopes, k \in TypeKeys :
        LET p == Owner(d, k) IN
        (/\ providers[p][k].lifetime = LifetimeForever
         /\ \A s \in Below(d, p) : instances[s][k] = NoInst)
        => /\ (/\ last'.op = "Get"
               /\ last'.scope = d
               /\ last'.arg = <<k>>
               /\ last'.err = NoErr)
              => IF instances[p][k] # NoInst
                    THEN /\ last'.inst = instances[p][k]
                         /\ last'.events = <<>>
                         /\ instances' = instances
                    ELSE /\ last'.events = <<Event("create", k, p, nextId)>>
                         /\ last'.inst.id = nextId
                         /\ instances' = [instances EXCEPT ![p][k] = last'.inst]
           /\ (/\ instances[p][k] # NoInst
               /\ \/ last'.op \in {"Get", "GetScoped", "Hydrate", "Invoke", "FreeOnce"}
                  \/ last'.op = "Free" /\ last'.scope # p)
              => instances'[p][k].id = instances[p][k].id]_vars

\* C4 witness: Get on a descendant has returned, without a Create call, the
\* instance cached on the scope that owns the Forever link.
C4_Witness ==
    \E k \in TypeKeys :
        LET p == Owner(last.scope, k) IN
        /\ last.op = "Get"
        /\ last.arg = <<k>>
        /\ last.err = NoErr
        /\ last.events = <<>>
        /\ p # last.scope
        /\ providers[p][k].lifetime = LifetimeForever
        /\ instances[p][k] = last.inst
        /\ instances[last.scope][k] = NoInst

\* C5 (as stated): an Invoke on scope d of a function that takes key k, whose
\* nearest link is a Once link, when no scope caches k, calls Create once and
\* Free once, and leaves k cached on no scope.
C5_OncePerInvoke ==
    [][\A d \in Scopes, k \in TypeKeys :
        (/\ last'.op = "Invoke"
         /\ last'.scope = d
         /\ last'.err = NoErr
         /\ k \in KeysOf(last'.arg, {ByValue, ByPointer})
         /\ getLink(d, k).lifetime = LifetimeOnce
         /\ \A s \in Scopes : instances[s][k] = NoInst)
        => /\ Len(EventsFor(last'.events, "create", k)) = 1
           /\ Len(EventsFor(last'.events, "free", k)) = 1
           /\ \A s \in Scopes : instances'[s][k] = NoInst]_vars

C7_OnceReleasedOnEveryExit ==
    last.op = "Invoke"
        => \A i \in DOMAIN last.events :
            LET e == last.events[i] IN
            (/\ e.ev = "create"
             /\ e.id # 0
             /\ e.scope = last.scope
             /\ getLink(last.scope, e.key).lifetime = LifetimeOnce)
            => instances[last.scope][e.key] = NoInst

\* C8 (as stated): after a successful Invoke, for every pointer argument
\* whose key has a nearest link, on the invoking scope or above, with an
\* AfterPointerUse callback, that callback ran after the call with the
\* instance that was passed.
C8_AfterUseFromAnyScope ==
    (last.op = "Invoke" /\ last.err = NoErr)
        => \A i \in DOMAIN last.arg :
            (/\ last.arg[i].kind = ByPointer
             /\ last.args[i] # NoInst
             /\ getLink(last.scope, last.arg[i].key).after)
            => \E c, j \in DOMAIN last.events :
                /\ c < j
                /\ last.events[c].ev = "call"
                /\ last.events[j].ev = "after"
                /\ last.events[j].id = last.args[i].id

\* The positions of the events of one kind.
At(events, ev) == {i \in DOMAIN events : events[i].ev = ev}

\* The first parameter of the given key.
FirstParam(params, key) ==
    CHOOSE i \in DOMAIN params :
        params[i].key = key /\ \A j \in DOMAIN params : params[j].key = key => i <= j

\* C9: the events of one Invoke are ordered: the Create callbacks run in the
\* order of the parameters they are for, all before the function is called;
\* the function is called at most once, with one argument per parameter, and
\* once if Invoke succeeds; its writes and then the AfterPointerUse callbacks,
\* in parameter order, come after the call; the Free callbacks come last.
C9_InvokeOrder ==
    last.op = "Invoke"
        => LET ev == last.events
               notified == SelectSeq(last.arg, LAMBDA t :
                                t.kind = ByPointer /\ providers[last.scope][t.key].after)
               afters == EventsOf(ev, "after")
           IN
           /\ \A i \in At(ev, "create"), j \in DOMAIN ev \ At(ev, "create") : i < j
           /\ \A i, j \in At(ev, "create") :
                i < j => FirstParam(last.arg, ev[i].key) < FirstParam(last.arg, ev[j].key)
           /\ Cardinality(At(ev, "call")) <= 1
           /\ last.err = NoErr => Cardinality(At(ev, "call")) = 1
           /\ At(ev, "call") # {} => Len(last.args) = Len(last.arg)
           /\ \A j \in DOMAIN ev \ At(ev, "create") : \E c \in At(ev, "call") : c <= j
           /\ \A i \in At(ev, "write"), j \in At(ev, "after") \cup At(ev, "free") : i < j
           /\ \A i \in At(ev, "after"), j \in At(ev, "free") : i < j
           /\ Len(afters) <= Len(notified)
           /\ \A i \in DOMAIN afters : afters[i].key = notified[i].key
           /\ last.err = NoErr => Len(afters) = Len(notified)

\* C9 witness: a successful Invoke ran two Create callbacks, the function, a
\* write, an AfterPointerUse callback and a Free callback.
C9_Witness ==
    /\ last.op = "Invoke"
    /\ last.err = NoErr
    /\ Cardinality(At(last.events, "create")) = 2
    /\ At(last.events, "write") # {}
    /\ At(last.events, "after") # {}
    /\ At(last.events, "free") # {}

\* C10 (as stated): an Invoke on scope s of a function that takes key k, by
\* pointer or by value, where s caches k as a constant
\* (no link for k in reach) or under its own Forever link, passes the cached
\* instance itself for a pointer parameter and a copy of its value for a
\* by-value parameter, and leaves that instance cached on s for a later
\* Get, holding what the function wrote, or its old value if it wrote nothing.
C10_PointerSharesCachedInstance ==
    [][\A s \in Scopes, k \in TypeKeys :
        (/\ last'.op = "Invoke"
         /\ last'.scope = s
         /\ last'.err = NoErr
         /\ k \in KeysOf(last'.arg, {ByValue, ByPointer})
         /\ instances[s][k] # NoInst
         /\ \/ getLink(s, k) = NoLink
            \/ providers[s][k].lifetime = LifetimeForever)
        => /\ \A i \in DOMAIN last'.arg :
                last'.arg[i].key = k
                    => last'.args[i] = IF last'.arg[i].kind = ByPointer
                                          THEN instances[s][k]
                                          ELSE Copy(instances[s][k].val)
           /\ instances'[s][k].id = instances[s][k].id
           /\ instances'[s][k].val =
                IF EventsFor(last'.events, "write", k) # <<>> THEN WrittenVal
                ELSE instances[s][k].val]_vars

\* C11: Scope.Free on scope s, with the map iteration yielding the keys in
\* order o and the Free callbacks of the keys in f failing, calls the Free
\* callback of every cached instance whose nearest link has one exactly once,
\* with that instance, whichever callbacks failed; it leaves no instance
\* cached on s and touches no other scope; it returns nil if no callback
\* failed, and otherwise a multiError that holds the error of every failed
\* callback, one entry each in the order the callbacks ran, and whose text is
\* that one message or "multiple errors: " and all messages joined by ", ".
C11_FreeMaximalEffort ==
    [][\A s \in Scopes, o \in KeyOrders, f \in SUBSET TypeKeys :
        (/\ last'.op = "Free"
         /\ last'.scope = s
         /\ ScopeFree(s, o, f))
        => LET freed == {k \in Cached(s) : getLink(s, k).free}
               failed == SelectSeq(o, LAMBDA k : k \in f \cap freed)
               expected == [i \in 1..Len(failed) |-> FreeErr(failed[i])]
           IN /\ Len(last'.events) = Cardinality(freed)
              /\ \A k \in freed :
                    EventsFor(last'.events, "free", k)
                        = <<Event("free", k, s, instances[s][k].id)>>
              /\ instances'[s] = EmptyInstances
              /\ \A t \in Scopes \ {s} : instances'[t] = instances[t]
              /\ last'.errs = expected
              /\ last'.err = IF failed = <<>> THEN NoErr ELSE MultiError
              /\ Len(failed) = 1 => Error(last'.errs) = FreeErr(failed[1])
              /\ Len(failed) = 2
                    => Error(last'.errs) = "multiple errors: " \o FreeErr(failed[1])
                                            \o ", " \o FreeErr(failed[2])]_vars

\* C11 witness: a Free whose first callback failed still ran the second one,
\* emptied the scope and returned the first callback's error.
C11_Witness ==
    /\ last.op = "Free"
    /\ Len(last.events) = 2
    /\ last.errs = <<FreeErr(last.events[1].key)>>
    /\ last.err = MultiError
    /\ instances[last.scope] = EmptyInstances

\* Nothing on the chain of scope s holds an instance or a link for key k.
Unprovided(s, k) ==
    \A a \in Chain(s) : instances[a][k] = NoInst /\ providers[a][k] = NoLink

C16_MissingCreateReported ==
    [][\A s \in Scopes, k \in TypeKeys :
        LET p == Owner(s, k) IN
        (/\ last'.op \in {"Get", "GetScoped"}
         /\ last'.scope = s
         /\ last'.arg = <<k>>
         /\ providers[p][k] # NoLink
         /\ ~providers[p][k].create
         /\ \A a \in Below(s, p) \cup {p} : instances[a][k] = NoInst)
        => /\ last'.err = ErrMissingCreate
           /\ instances' = instances]_vars

\* C17: a Get or GetScoped of a key that nothing on the chain provides and
\* whose type implements Dynamic calls ProvideDynamic once and no Dynamic
\* callback of any scope; and whenever a Dynamic callback is called, the type
\* asked for does not implement Dynamic and ProvideDynamic was not called.
C17_CapabilityFirst ==
    [][\A s \in Scopes, k \in TypeKeys :
        (/\ last'.op \in {"Get", "GetScoped"}
         /\ last'.scope = s
         /\ last'.arg = <<k>>)
        => /\ (Unprovided(s, k) /\ types[k].dynamic)
              => /\ Len(EventsOf(last'.events, "provideDynamic")) = 1
                 /\ Len(last'.events) = 1
           /\ EventsOf(last'.events, "dynamic") # <<>>
              => /\ ~types[k].dynamic
                 /\ EventsOf(last'.events, "provideDynamic") = <<>>]_vars

\* C17 witness: a Get of the type that implements Dynamic, on a chain with a
\* Dynamic callback that returns values, was resolved by ProvideDynamic alone.
C17_Witness ==
    /\ last.op = "Get"
    /\ last.err = NoErr
    /\ types[last.arg[1]].dynamic
    /\ \E a \in Chain(last.scope) : dynamic[a] = DynValue
    /\ Len(last.events) = 1
    /\ last.events[1].ev = "provideDynamic"

\* C18: a Get or GetScoped in which ProvideDynamic or a Dynamic callback is
\* called leaves the instances of every scope as they were and, if it
\* succeeds, returns a value that no scope caches; and whenever nothing on
\* the chain provides the key while its type implements Dynamic or a scope of
\* the chain has a Dynamic callback, the fallback is called, whatever was
\* resolved before.
C18_DynamicNeverCached ==
    [][\A s \in Scopes, k \in TypeKeys :
        (/\ last'.op \in {"Get", "GetScoped"}
         /\ last'.scope = s
         /\ last'.arg = <<k>>)
        => /\ (\E i \in DOMAIN last'.events :
                    last'.events[i].ev \in {"provideDynamic", "dynamic"})
              => /\ instances' = instances
                 /\ nextId' = nextId
                 /\ last'.err = NoErr => last'.inst = Fresh
           /\ (/\ Unprovided(s, k)
               /\ \/ types[k].dynamic
                  \/ \E a \in Chain(s) : dynamic[a] # NoDynamic)
              => /\ last'.events # <<>>
                 /\ \A i \in DOMAIN last'.events :
                        last'.events[i].ev \in {"provideDynamic", "dynamic"}]_vars

\* C18 witness: a GetScoped was resolved by a Dynamic callback and no scope
\* of its chain caches the value.
C18_Witness ==
    /\ last.op = "GetScoped"
    /\ last.err = NoErr
    /\ last.inst = Fresh
    /\ last.events # <<>>
    /\ last.events[Len(last.events)].ev = "dynamic"
    /\ \A a \in Chain(last.scope) : instances[a][last.arg[1]] = NoInst

\* C19: Scope.Set on scope s for key k returns nil, runs no callback and
\* stores a new entry for k on s over whatever was cached, a link for k
\* being registered or not: the caller's instance itself for a pointer, a new
\* copy of the caller's value for a value; nothing else changes. And a Get of
\* k on a scope that caches k returns the cached instance without any
\* callback and changes nothing, whatever links exist.
C19_SetOverrides ==
    [][\A s \in Scopes, k \in TypeKeys :
        /\ (/\ last'.op = "Set"
            /\ last'.scope = s
            /\ last'.arg[1].key = k)
           => /\ last'.err = NoErr
              /\ last'.events = <<>>
              /\ instances'[s][k] = [id |-> nextId, val |-> last'.inst.val]
              /\ last'.arg[1].kind = ByPointer => instances'[s][k] = last'.inst
              /\ last'.arg[1].kind = ByValue => last'.inst.id # instances'[s][k].id
              /\ \A t \in Scopes, j \in TypeKeys :
                    <<t, j>> # <<s, k>> => instances'[t][j] = instances[t][j]
              /\ providers' = providers
        /\ (/\ last'.op = "Get"
            /\ last'.scope = s
            /\ last'.arg = <<k>>
            /\ instances[s][k] # NoInst)
           => /\ last'.err = NoErr
              /\ last'.inst = instances[s][k]
              /\ last'.events = <<>>
              /\ instances' = instances]_vars

\* C19 witness: a Get returned the constant a Set stored on a scope that has
\* a link with a Create function for the key, and ran no callback.
C19_Witness ==
    /\ last.op = "Get"
    /\ last.err = NoErr
    /\ last.events = <<>>
    /\ last.inst.val = SetVal
    /\ instances[last.scope][last.arg[1]] = last.inst
    /\ providers[last.scope][last.arg[1]].create

\* C20: ProvideScoped on scope s for a key k that has a link on s replaces
\* that link by the provider given and changes nothing else: no callback
\* runs, no instance is added or removed, every other link stays. And a Get
\* of k on a scope that has a link for k returns the instance cached there,
\* if there is one, without a callback, and is otherwise answered by the link
\* registered at that moment: Create is called on s if the link has one, and
\* ErrMissingCreate is returned if it has none.
C20_ReprovideReplacesLink ==
    [][\A s \in Scopes, k \in TypeKeys :
        /\ (/\ last'.op = "Provide"
            /\ last'.scope = s
            /\ last'.arg = <<k>>
            /\ providers[s][k] # NoLink)
           => /\ providers'[s][k] = last'.args[1]
              /\ \A t \in Scopes, j \in TypeKeys :
                    <<t, j>> # <<s, k>> => providers'[t][j] = providers[t][j]
              /\ last'.events = <<>>
              /\ instances' = instances
              /\ nextId' = nextId
              /\ parent' = parent
              /\ dynamic' = dynamic
        /\ (/\ last'.op = "Get"
            /\ last'.scope = s
            /\ last'.arg = <<k>>
            /\ providers[s][k] # NoLink
            /\ instances[s][k] = NoInst)
           => IF providers[s][k].create
                THEN /\ Len(last'.events) = 1
                     /\ last'.events[1].ev = "create"
                     /\ last'.events[1].scope = s
                     /\ last'.err = NoErr => instances'[s][k] = last'.inst
                ELSE /\ last'.err = ErrMissingCreate
                     /\ last'.events = <<>>
        /\ (/\ last'.op = "Get"
            /\ last'.scope = s
            /\ last'.arg = <<k>>
            /\ providers[s][k] # NoLink
            /\ instances[s][k] # NoInst)
           => /\ last'.inst = instances[s][k]
              /\ last'.events = <<>>]_vars

\* C20 witness: a link without Create has been registered on the global scope
\* over the link whose Create made the instance that is still cached there.
C20_Witness ==
    /\ last.op = "Provide"
    /\ last.scope = global
    /\ ~last.args[1].create
    /\ providers[global][last.arg[1]] = last.args[1]
    /\ instances[global][last.arg[1]].val = InitVal

\* Nothing resolves key k on scope s: nothing is registered for it on the
\* chain, its type has no Dynamic capability and no Dynamic callback of the
\* chain returns a value or an error.
Unresolvable(s, k) ==
    /\ Unprovided(s, k)
    /\ ~types[k].dynamic
    /\ \A a \in Chain(s) : dynamic[a] \in {NoDynamic, DynNothing}

\* C12: Hydrate of a zero struct of two fields of the types first and second
\* never returns ErrNoProvider. A field of type Port that nothing resolves
\* keeps its value, and if nothing resolves any type, Hydrate returns nil and
\* the struct is as it was. If the Get of the first field's type fails with
\* another error, Hydrate returns that error and the struct is as it was,
\* the second field too; if the first resolves and the Get of the second
\* field's type fails, Hydrate returns that error, the first field holds the
\* resolved value and the second is as it was. No callback runs after a
\* Create that failed.
C12_OnlyNoProviderIsLeftAlone ==
    [][\A s \in Scopes, t \in {EnvThenPort, PortThenEnv}, f \in SUBSET TypeKeys :
        (/\ last'.op = "Hydrate"
         /\ last'.scope = s
         /\ ScopeHydrateVar(s, Var(t, Zero(t)), f))
        => LET first == t.fields[1].typ.key
               second == t.fields[2].typ.key
               g1 == Get(St0, s, first, f)
               g2 == Get(g1.st, s, second, f)
               quiet == \A a \in Chain(s) : dynamic[a] # DynError
           IN /\ last'.err # ErrNoProvider
              /\ \A i \in 1..2 :
                    (t.fields[i].typ = Named("Port") /\ Unresolvable(s, "Port"))
                        => last'.inst.elems[i] = Copy(ZeroVal)
              /\ (\A k \in TypeKeys : Unresolvable(s, k))
                    => last'.err = NoErr /\ last'.inst = Zero(t)
              /\ (quiet /\ Failed(g1.err))
                    => /\ last'.err = g1.err
                       /\ last'.inst = Zero(t)
                       /\ instances' = g1.st.instances
              /\ (quiet /\ g1.err = NoErr /\ Failed(g2.err))
                    => /\ last'.err = g2.err
                       /\ last'.inst = Elems(<<Copy(g1.inst.val), Zero(Named(second))>>)
                       /\ instances' = g2.st.instances
              /\ \A n \in DOMAIN last'.events :
                    (last'.events[n].ev = "create" /\ last'.events[n].id = 0)
                        => n = Len(last'.events) /\ last'.err = ErrCreate]_vars

\* C12 witness: a Hydrate of struct { Env Env; Port Port } returned the error
\* of Env's Create and left the Port field at zero although the scope holds a
\* Port constant.
C12_Witness ==
    /\ last.op = "Hydrate"
    /\ last.arg[1].typ = EnvThenPort
    /\ last.err = ErrCreate
    /\ last.inst = Elems(<<Elems(<<Copy(ZeroVal)>>), Copy(ZeroVal)>>)
    /\ instances[last.scope]["Port"] # NoInst

\* Every slot of a named type that resolves on scope s, at any depth of the
\* structs, arrays and slices of a value, holds the resolved value.
RECURSIVE AllFilled(_, _, _)
AllFilled(s, typ, val) ==
    IF typ.kind = ByValue /\ ~Unresolvable(s, typ.key) THEN val = Copy(InitVal)
    ELSE IF typ.kind \in {ByPointer, KindMap} THEN TRUE
    ELSE IF typ.kind \in {KindArray, KindSlice}
        THEN \A i \in DOMAIN val.elems : AllFilled(s, typ.of, val.elems[i])
    ELSE \A i \in DOMAIN FieldsOf(typ) : AllFilled(s, FieldsOf(typ)[i].typ, val.elems[i])

\* The same for the slots that can be set, those not reached through an
\* unexported field; the others hold what they held in `old`.
RECURSIVE SettableFilled(_, _, _, _, _)
SettableFilled(s, typ, val, old, settable) ==
    IF typ.kind = ByValue /\ ~Unresolvable(s, typ.key)
        THEN val = IF settable THEN Copy(InitVal) ELSE old
    ELSE IF typ.kind \in {ByPointer, KindMap} THEN TRUE
    ELSE IF typ.kind \in {KindArray, KindSlice}
        THEN \A i \in DOMAIN val.elems :
                SettableFilled(s, typ.of, val.elems[i], old.elems[i], settable)
    ELSE \A i \in DOMAIN FieldsOf(typ) :
            SettableFilled(s, FieldsOf(typ)[i].typ, val.elems[i], old.elems[i],
                           settable /\ FieldsOf(typ)[i].exported)

\* The types whose every slot of type Port lies within a slot of type Env.
UnderEnv == {Named("Env"), ArrayOf(Named("Env"), 2)}

\* C13 (as stated): after a Hydrate or an Invoke that returned nil, every
\* field or element of a named type that resolves on the scope, at any depth
\* of the target or of an argument, holds the resolved value; and if Env
\* resolves, no callback ran for the Port within an Env.
C13_EveryNestedSlotFilled ==
    [][\A s \in Scopes :
        (/\ last'.op \in {"Hydrate", "Invoke"}
         /\ last'.scope = s
         /\ last'.err = NoErr)
        => /\ last'.op = "Hydrate"
                => AllFilled(s, last'.arg[1].typ, last'.inst)
           /\ last'.op = "Invoke"
                => \A i \in DOMAIN last'.arg : AllFilled(s, last'.arg[i], last'.args[i])
           /\ (last'.arg[1] \in {Var(t, Zero(t)) : t \in UnderEnv} \cup UnderEnv
                    /\ ~Unresolvable(s, "Env"))
                => \A n \in DOMAIN last'.events : last'.events[n].key # "Port"]_vars

\* C13 (amended): the same for the fields and elements that can be set, those
\* not reached through an unexported field; a slot that cannot be set keeps
\* what it held although its type resolves.
C13_SettableSlotsFilled ==
    [][\A s \in Scopes :
        (/\ last'.op \in {"Hydrate", "Invoke"}
         /\ last'.scope = s
         /\ last'.err = NoErr)
        => /\ last'.op = "Hydrate"
                => SettableFilled(s, last'.arg[1].typ, last'.inst, last'.arg[1].val, TRUE)
           /\ last'.op = "Invoke"
                => \A i \in DOMAIN last'.arg :
                        SettableFilled(s, last'.arg[i], last'.args[i], Zero(last'.arg[i]), TRUE)
           /\ (last'.arg[1] \in {Var(t, Zero(t)) : t \in UnderEnv} \cup UnderEnv
                    /\ ~Unresolvable(s, "Env"))
                => \A n \in DOMAIN last'.events : last'.events[n].key # "Port"]_vars

\* C13 witness: a Hydrate of a [2]Env, Env resolving to nothing, filled the
\* Port field of both elements with the value of the Port it created.
C13_Witness ==
    /\ last.op = "Hydrate"
    /\ last.arg[1].typ = ArrayOf(Named("Env"), 2)
    /\ last.err = NoErr
    /\ last.inst = Elems(<<Elems(<<Copy(InitVal)>>), Elems(<<Copy(InitVal)>>)>>)
    /\ Len(EventsFor(last.events, "create", "Port")) = 1

\* C14: an Invoke never returns ErrNoProvider. If it returns nil, every
\* parameter of a slice or map type, and every parameter of a type V or *V
\* that nothing resolves, was passed its zero value: a nil slice, a nil map,
\* the zero V, a nil pointer. If nothing resolves any type, the Invoke
\* returns nil and the function was called exactly once.
C14_InvokeWithZeroValues ==
    [][\A s \in Scopes :
        (/\ last'.op = "Invoke"
         /\ last'.scope = s
         /\ last'.arg # <<>>)
        => /\ last'.err # ErrNoProvider
           /\ last'.err = NoErr
                => \A i \in DOMAIN last'.arg :
                    (\/ last'.arg[i].kind \in {KindSlice, KindMap}
                     \/ /\ last'.arg[i].kind \in {ByValue, ByPointer}
                        /\ Unresolvable(s, last'.arg[i].key)
                        /\ FieldsOf(last'.arg[i]) = <<>>)
                    => last'.args[i] = Zero(last'.arg[i])
           /\ (\A k \in TypeKeys : Unresolvable(s, k))
                => /\ last'.err = NoErr
                   /\ Len(EventsOf(last'.events, "call")) = 1
                   /\ \A i \in DOMAIN last'.arg : last'.args[i] = Zero(last'.arg[i])]_vars

\* C14 witness: an Invoke of a function of a slice, a map, a Port and a *Port
\* on a scope where nothing resolves called it once with nil, nil, zero, nil.
C14_Witness ==
    /\ last.op = "Invoke"
    /\ Len(last.arg) = 4
    /\ last.err = NoErr
    /\ last.args = <<Elems(<<>>), Elems(<<>>), Copy(ZeroVal), NoInst>>
    /\ Len(EventsOf(last.events, "call")) = 1
    /\ \A k \in TypeKeys : Unprovided(last.scope, k)

\* The errors of a resolution: of Create, of a link without Create, of
\* ProvideDynamic and of a Dynamic callback.
ResolutionErrors == {ErrCreate, ErrMissingCreate, ErrProvideDynamic, ErrDynamic}

\* C21: an Invoke never returns ErrNoProvider. If resolving its parameters in
\* order fails, the Invoke returns the error of the first parameter that
\* failed, and whenever an Invoke returns the error of a resolution, the
\* function was not called, wrote nothing, no AfterPointerUse and no Free
\* callback ran and no callback ran after the one that failed.
C21_InvokeAbortsOnResolutionError ==
    [][(last'.op = "Invoke" /\ last'.arg # <<>>) =>
       \A s \in {last'.scope},
          o \in OrdersOf(\A k \in TypeKeys : getLink(last'.scope, k).lifetime = LifetimeOnce),
          f \in Failures(KeysOf(last'.arg, {ByValue, ByPointer}),
                         KeysOf(last'.arg, {ByPointer})),
          fn \in [func : {TRUE}, params : {last'.arg},
                  writes : {FALSE, KeysOf(last'.arg, {ByPointer}) # {}}] :
        ScopeInvoke(s, fn, o, f)
        => LET a == resolveArgs(St0, s, fn.params, f.create, <<>>) IN
           /\ last'.err # ErrNoProvider
           /\ a.err # NoErr
                => /\ last'.err = a.err
                   /\ a.err \in ResolutionErrors
                   /\ last'.events = a.st.events
           /\ last'.err \in ResolutionErrors
                => /\ a.err = last'.err
                   /\ \A n \in DOMAIN last'.events :
                        last'.events[n].ev \in {"create", "provideDynamic", "dynamic"}
                   /\ last'.args = <<>>
                   /\ \A k \in TypeKeys, t \in Scopes :
                        instances'[t][k] # instances[t][k]
                            => /\ instances[t][k] = NoInst
                               /\ instances'[t][k].val = InitVal]_vars

\* C21 witness: an Invoke of a function of two pointers whose first parameter
\* was created, on a scope whose link for it has an AfterPointerUse callback,
\* returned the error of the second parameter's resolution.
C21_Witness ==
    /\ last.op = "Invoke"
    /\ Len(last.arg) = 2
    /\ last.arg[1].kind = ByPointer
    /\ last.err \in ResolutionErrors \ {ErrCreate}
    /\ Len(last.events) >= 2
    /\ last.events[1].ev = "create"
    /\ providers[last.scope][last.arg[1].key].after

\* C22: a FreeOnce on scope s, and an Invoke on s, which ends with one, runs
\* no Free callback for, and leaves cached on s, every instance of s whose
\* nearest link has lifetime Forever or Scope; and a Get on s of a key cached
\* there returns the cached instance.
C22_FreeOnceOnlyOnce ==
    [][\A s \in Scopes, k \in TypeKeys :
        (/\ last'.scope = s
         /\ instances[s][k] # NoInst
         /\ getLink(s, k).lifetime \in {LifetimeForever, LifetimeScope})
        => /\ last'.op \in {"FreeOnce", "Invoke"}
                => /\ instances'[s][k].id = instances[s][k].id
                   /\ EventsFor(last'.events, "free", k) = <<>>
           /\ (last'.op = "Get" /\ last'.arg = <<k>>)
                => /\ last'.inst = instances[s][k]
                   /\ last'.err = NoErr]_vars

\* C22 witness: a FreeOnce ran the Free callback of one key and left the
\* other key, whose nearest link has lifetime Forever or Scope, cached.
C22_Witness ==
    \E k \in TypeKeys :
        /\ last.op = "FreeOnce"
        /\ Len(EventsOf(last.events, "free")) = 1
        /\ instances[last.scope][k] # NoInst
        /\ getLink(last.scope, k).lifetime \in {LifetimeForever, LifetimeScope}

\* Every slot of a value whose type nothing resolves on scope s holds what it
\* held in `old`, at any depth of the structs, arrays, slices and maps, and
\* every slice and map has as many entries as before.
RECURSIVE Untouched(_, _, _, _)
Untouched(s, typ, val, old) ==
    IF typ.kind = ByPointer THEN val = old
    ELSE IF typ.kind = ByValue /\ ~Unresolvable(s, typ.key) THEN TRUE
    ELSE IF typ.kind \in {KindArray, KindSlice, KindMap}
        THEN /\ Len(val.elems) = Len(old.elems)
             /\ \A i \in DOMAIN val.elems : Untouched(s, typ.of, val.elems[i], old.elems[i])
    ELSE IF FieldsOf(typ) = <<>> THEN val = old
    ELSE \A i \in DOMAIN FieldsOf(typ) :
            Untouched(s, FieldsOf(typ)[i].typ, val.elems[i], old.elems[i])

\* C23 (as stated): after a Hydrate, whatever it returned, every field,
\* element and map value of the target whose type nothing resolves holds the
\* value it held before the call, and every map has the entries it had.
C23_UnresolvedLeavesUntouched ==
    [][last'.op = "Hydrate"
        => Untouched(last'.scope, last'.arg[1].typ, last'.inst, last'.arg[1].val)]_vars

\* C24: a Free or FreeOnce on scope s changes no link and no scope's parent,
\* and no instance map but that of s, where it only removes entries; its Free
\* callbacks are given s and the instance s cached, also when the link is that
\* of an ancestor. A Get on s of a key k that s does not cache (as after a
\* Free), whose nearest link has a Create that succeeds and is either of
\* lifetime Scope or on a scope p such that no scope from s up to p caches k,
\* calls that Create once and returns the new instance.
C24_FreeTouchesOnlyOwnCache ==
    [][\A s \in Scopes :
        last'.scope = s
        => /\ last'.op \in {"Free", "FreeOnce"}
                => /\ providers' = providers
                   /\ parent' = parent
                   /\ \A t \in Scopes \ {s} : instances'[t] = instances[t]
                   /\ \A k \in TypeKeys : instances'[s][k] \in {instances[s][k], NoInst}
                   /\ \A n \in DOMAIN last'.events :
                        /\ last'.events[n].ev = "free"
                        /\ last'.events[n].scope = s
                        /\ last'.events[n].id = instances[s][last'.events[n].key].id
           /\ \A k \in TypeKeys :
                (/\ last'.op = "Get"
                 /\ last'.arg = <<k>>
                 /\ last'.err = NoErr
                 /\ getLink(s, k).create
                 /\ \/ getLink(s, k).lifetime = LifetimeScope /\ instances[s][k] = NoInst
                    \/ \A t \in Below(s, Owner(s, k)) \cup {Owner(s, k)} :
                            instances[t][k] = NoInst)
                => /\ Len(last'.events) = 1
                   /\ last'.events[1].ev = "create"
                   /\ last'.events[1].id = nextId
                   /\ last'.inst = [id |-> nextId, val |-> InitVal]
                   /\ nextId' = nextId + 1]_vars

\* C24 witness: a Free on a child scope ran the Free callback of a link that
\* only the global scope has, and the instance the global scope caches for
\* the same key is still there.
C24_Witness ==
    \E k \in TypeKeys :
        /\ last.op = "Free"
        /\ last.scope # global
        /\ EventsFor(last.events, "free", k) # <<>>
        /\ providers[last.scope][k] = NoLink
        /\ providers[global][k] # NoLink
        /\ instances[global][k] # NoInst

\* The cache entries that hold the instance `id` in the instance maps `inst`.
SlotsOf(inst, id) ==
    {sk \in (DOMAIN inst) \X TypeKeys : inst[sk[1]][sk[2]].id = id}

\* C25: in every step, no instance is cached in two places. An entry that is
\* cached after the step is the one that was there before or holds an instance
\* allocated in the step, so an instance that left the caches never returns.
\* A Create that succeeded allocated a new instance, which is afterwards
\* cached in exactly one place, on the scope the Create ran for, unless a Free
\* callback of the same operation was given it. Every Free callback is given
\* an instance that was cached on the scope it runs for and that is cached
\* nowhere afterwards, and no two Free callbacks of one operation are given
\* the same instance. A Free on scope s gives every instance of s whose
\* nearest link has a Free callback to it exactly once and leaves s empty, and
\* a Free on a scope that caches nothing runs no callback and returns nil.
C25_FreedAtMostOnce ==
    [][/\ \A id \in 1..(nextId' - 1) : Cardinality(SlotsOf(instances', id)) <= 1
       /\ \A t \in Scopes, k \in TypeKeys :
            instances'[t][k] # NoInst
                => \/ instances'[t][k].id = instances[t][k].id
                   \/ instances'[t][k].id >= nextId
       /\ \A n \in DOMAIN last'.events :
            LET e == last'.events[n] IN
            /\ (e.ev = "create" /\ e.id # 0)
                => /\ e.id >= nextId
                   /\ \/ SlotsOf(instances', e.id) = {<<e.scope, e.key>>}
                      \/ /\ SlotsOf(instances', e.id) = {}
                         /\ \E m \in DOMAIN last'.events :
                                /\ m > n
                                /\ last'.events[m].ev = "free"
                                /\ last'.events[m].id = e.id
            /\ e.ev = "free"
                => /\ e.id > 0
                   /\ \/ instances[e.scope][e.key].id = e.id
                      \/ e.id >= nextId
                   /\ SlotsOf(instances', e.id) = {}
                   /\ \A m \in DOMAIN last'.events \ {n} :
                        last'.events[m].ev = "free" => last'.events[m].id # e.id
       /\ \A s \in Scopes :
            (last'.op = "Free" /\ last'.scope = s)
                => /\ instances'[s] = EmptyInstances
                   /\ \A k \in TypeKeys :
                        (instances[s][k] # NoInst /\ getLink(s, k).free)
                            => Cardinality({n \in DOMAIN last'.events :
                                    last'.events[n].id = instances[s][k].id}) = 1
                   /\ Cached(s) = {}
                        => last'.events = <<>> /\ last'.err = NoErr]_vars

\* C25 witness: a Free that returned nil on a scope with a provider for both
\* keys gave two instances to their Free callbacks and left the scope empty.
C25_Witness ==
    /\ last.op = "Free"
    /\ last.err = NoErr
    /\ Len(EventsOf(last.events, "free")) = 2
    /\ last.events[1].id # last.events[2].id
    /\ \A k \in TypeKeys : providers[last.scope][k].create
    /\ instances[last.scope] = EmptyInstances

SameRequest(c, d) ==
    /\ c # d
    /\ calls[c].pc # PcIdle /\ calls[d].pc # PcIdle
    /\ calls[c].scope = calls[d].scope
    /\ calls[c].key = calls[d].key
    /\ getLink(calls[c].scope, calls[c].key) # NoLink
    /\ getLink(calls[c].scope, calls[c].key).lifetime \in {LifetimeForever, LifetimeScope}

\* The call has read the cache, found nothing and gone on to Create.
Missed(c) ==
    \/ calls[c].pc \in {PcCreate, PcWrite}
    \/ calls[c].pc = PcDone /\ calls[c].events # <<>>

\* Call c makes the later write of two calls that both missed: each call ran
\* Create once, c returns its own instance, which differs from the one d
\* returned, and it is c's instance that the cache holds.
LaterWriteWins(c, d) ==
    (/\ calls[c].pc = PcWrite
     /\ calls'[c].pc = PcDone
     /\ calls[d].pc = PcDone
     /\ calls[d].err = NoErr)
    => /\ calls'[c].err = NoErr
       /\ Len(EventsOf(calls'[c].events, "create")) = 1
       /\ Len(EventsOf(calls[d].events, "create")) = 1
       /\ calls'[c].inst # NoInst
       /\ calls'[c].inst.id # calls[d].inst.id
       /\ calls'[d] = calls[d]
       /\ instances'[calls[c].target][calls[c].key] = calls'[c].inst

\* Call c reads after call d has created, written and come back: c returns
\* the cached instance and runs no Create.
SerializedCreatesOnce(c, d) ==
    (/\ SameRequest(c, d)
     /\ calls[c].pc = PcRead
     /\ calls'[c].pc \notin {PcRead, PcFatal}
     /\ calls[d].pc = PcDone
     /\ calls[d].err = NoErr
     /\ calls[d].events # <<>>)
    => /\ calls'[c].pc = PcDone
       /\ calls'[c].err = NoErr
       /\ calls'[c].events = <<>>
       /\ calls'[c].inst # NoInst
       /\ calls'[c].inst = instances[calls[d].target][calls[d].key]
       /\ instances' = instances

\* C27 (as stated): when two Get calls for the same uncached Forever- or
\* Scope-lifetime type on the same scope have both read the cache before
\* either writes it, both calls come back: Create has run twice, the callers
\* hold different instances and the later-written one is the one cached; a
\* call made after another has come back runs no Create.
C27_RaceCreatesTwiceLastWriteWins ==
    [][\A c, d \in Callers :
        /\ (SameRequest(c, d) /\ Missed(c) /\ Missed(d))
            => /\ calls'[c].pc # PcFatal
               /\ LaterWriteWins(c, d)
        /\ SerializedCreatesOnce(c, d)]_vars

\* C27 (amended): when two Get calls for the same uncached Forever- or
\* Scope-lifetime type on the same scope have both read the cache before
\* either writes it, then, unless the runtime ends the program on the
\* concurrent map access, Create runs twice, the callers hold different
\* instances and the later-written one is the one cached; a call made after
\* another has come back runs no Create.
C27_RaceOutcomeUnlessFatal ==
    [][\A c, d \in Callers :
        /\ (SameRequest(c, d) /\ Missed(c) /\ Missed(d) /\ calls'[c].pc # PcFatal)
            => LaterWriteWins(c, d)
        /\ SerializedCreatesOnce(c, d)]_vars

\* C27 witness: two calls for the same type on the same scope have both run
\* Create and come back with different instances, one of which is cached.
C27_Witness ==
    \E c, d \in Callers :
        /\ SameRequest(c, d)
        /\ calls[c].pc = PcDone /\ calls[d].pc = PcDone
        /\ calls[c].err = NoErr /\ calls[d].err = NoErr
        /\ calls[c].events # <<>> /\ calls[d].events # <<>>
        /\ calls[c].inst.id # calls[d].inst.id
        /\ instances[calls[c].target][calls[c].key] = calls[c].inst

\* C28: construction is lazy and cached. A Provide runs no callback and
\* leaves the caches as they are. A Create callback of any operation runs for
\* a scope and type for which nothing was cached when the operation began,
\* and once it has succeeded it does not run again for them. When the Create
\* of a Get or GetScoped fails, the call returns that error and the caches
\* are as before; and a Get or GetScoped that finds nothing cached from its
\* scope up to the scope of the nearest provider, one with a Create, calls
\* Create.
C28_LazyAndCached ==
    [][/\ last'.op = "Provide" => last'.events = <<>> /\ instances' = instances
       /\ \A n \in DOMAIN last'.events :
            last'.events[n].ev = "create"
                => /\ last'.events[n].scope \in Scopes
                   /\ instances[last'.events[n].scope][last'.events[n].key] = NoInst
                   /\ \A m \in 1..(n - 1) :
                        ~(/\ last'.events[m].ev = "create"
                          /\ last'.events[m].id # 0
                          /\ last'.events[m].scope = last'.events[n].scope
                          /\ last'.events[m].key = last'.events[n].key)
       /\ last'.op \in {"Get", "GetScoped"}
            => /\ (\E n \in DOMAIN last'.events :
                        last'.events[n].ev = "create" /\ last'.events[n].id = 0)
                    => /\ last'.err = ErrCreate
                       /\ last'.inst = NoInst
                       /\ instances' = instances
               /\ \A s \in {last'.scope}, k \in {last'.arg[1]} :
                    (/\ getLink(s, k) # NoLink
                     /\ getLink(s, k).create
                     /\ \A x \in Below(s, Owner(s, k)) \cup {Owner(s, k)} :
                            instances[x][k] = NoInst)
                    => Len(EventsOf(last'.events, "create")) = 1]_vars

\* C28 witness: the Create that a Get reached has failed; the Get returned
\* its error and the type is cached nowhere on the way to its provider.
C28_Witness ==
    /\ last.op = "Get"
    /\ last.err = ErrCreate
    /\ Len(last.events) = 1
    /\ last.events[1].ev = "create"
    /\ last.scope # global
    /\ \A x \in Chain(last.scope) : instances[x][last.arg[1]] = NoInst

\* Scope a, an ancestor of s, holds a constant for k; s and the scopes between
\* hold nothing for k, neither an instance nor a provider; and the one
\* provider for k of the whole tree is on a or above a.
ConstantAbove(s, a, k) ==
    /\ a \in Chain(s) /\ a # s
    /\ instances[a][k] # NoInst
    /\ \A x \in Below(s, a) : instances[x][k] = NoInst /\ providers[x][k] = NoLink
    /\ Cardinality({x \in Scopes : providers[x][k] # NoLink}) = 1
    /\ \E x \in Chain(a) : providers[x][k] # NoLink

PathsComparable(s, k) ==
    /\ getLink(s, k) # NoLink
        => getLink(s, k).create /\ getLink(s, k).lifetime # LifetimeScope
    /\ \/ \E x \in Chain(s) : instances[x][k] # NoInst \/ providers[x][k] # NoLink
       \/ ~types[k].dynamic /\ \A x \in Chain(s) : dynamic[x] = NoDynamic

\* C30: when the nearest provider for k (if any) has a Create function and a
\* lifetime other than Scope and no dynamic fallback applies, a GetScoped and
\* a Scope.Get of k on s, started from the same state with the same outcome
\* of Create, return the same instance and the same error, call the same
\* callbacks with the same arguments in the same order, and leave the same
\* instance caches in all scopes.
C30_TypedAndGenericAgree ==
    [][last'.op \in {"Get", "GetScoped"}
        => \A s \in {last'.scope}, k \in {last'.arg[1]} :
            \A f \in SUBSET {k} :
                (/\ PathsComparable(s, k)
                 /\ ScopeGet(s, k, f) \/ TypedGet(s, k, f))
                => LET generic == Get(St0, s, k, f)
                       typed == GetScoped(St0, s, k, f) IN
                    /\ typed.inst = generic.inst
                    /\ typed.err = generic.err
                    /\ typed.st.events = generic.st.events
                    /\ typed.st.instances = generic.st.instances
                    /\ instances' = generic.st.instances
                    /\ last'.inst = generic.inst
                    /\ last'.err = generic.err
                    /\ last'.events = generic.st.events]_vars

\* C30 witness: a GetScoped on a scope without a provider has run the Create
\* of a provider of an ancestor, of a lifetime other than Scope, and the new
\* instance is cached on that ancestor only.
C30_Witness ==
    /\ last.op = "GetScoped"
    /\ last.err = NoErr
    /\ Len(last.events) = 1
    /\ last.events[1].ev = "create"
    /\ last.events[1].scope # last.scope
    /\ getLink(last.scope, last.arg[1]).create
    /\ getLink(last.scope, last.arg[1]).lifetime # LifetimeScope
    /\ instances[last.events[1].scope][last.arg[1]] = last.inst
    /\ instances[last.scope][last.arg[1]] = NoInst

====
